---- MODULE Spec2Model ----
(***************************************************************************)
(* Model of the Shannon-thinking sequence tracker: the class               *)
(* ShannonThinkingServer (validateThoughtData, formatThought,              *)
(* processThought) and the thought history it owns.                        *)
(*                                                                         *)
(* JavaScript values are tagged records: the field kind names the sort of  *)
(* value, and one more field carries the payload.  A number is an integer  *)
(* n, written Num(n), or n + 0.5, written Half(n); Twice gives twice its   *)
(* value, and numbers are compared through it.                             *)
(***************************************************************************)
EXTENDS Integers, Sequences, FiniteSets, TLC

VARIABLES thoughtHistory, otherHistory, callee, input, response, thrown, before,
          accepted, lastAccepted, calls, older

vars == <<thoughtHistory, otherHistory, callee, input, response, thrown, before,
          accepted, lastAccepted, calls, older>>

(***************************************************************************)
(* JavaScript values                                                       *)
(***************************************************************************)
Undefined == [kind |-> "undefined"]

Null == [kind |-> "null"]

Str(s) == [kind |-> "string", str |-> s]

Num(n) == [kind |-> "number", num |-> n]

\* The number n + 0.5
Half(n) == [kind |-> "number", num |-> n, half |-> TRUE]

\* The BigInt n (10n in the source language)
BigInt(n) == [kind |-> "bigint", num |-> n]

Bool(b) == [kind |-> "boolean", bool |-> b]

Arr(s) == [kind |-> "array", elems |-> s]

Obj(f) == [kind |-> "object", fields |-> f]

\* Twice the value of the number v
Twice(v) == IF "half" \in DOMAIN v THEN 2 * v.num + 1 ELSE 2 * v.num

\* typeof v
TypeOf(v) ==
  CASE v.kind = "undefined" -> "undefined"
    [] v.kind = "string" -> "string"
    [] v.kind = "number" -> "number"
    [] v.kind = "bigint" -> "bigint"
    [] v.kind = "boolean" -> "boolean"
    [] OTHER -> "object"

\* !!v
Truthy(v) ==
  CASE v.kind = "undefined" -> FALSE
    [] v.kind = "null" -> FALSE
    [] v.kind = "string" -> v.str # ""
    [] v.kind = "number" -> Twice(v) # 0
    [] v.kind = "bigint" -> v.num # 0
    [] v.kind = "boolean" -> v.bool
    [] OTHER -> TRUE

\* Array.isArray(v)
IsArray(v) == v.kind = "array"

\* o.name, for a value o that was cast to Record<string, unknown>
Prop(o, name) ==
  IF o.kind = "object" /\ name \in DOMAIN o.fields THEN o.fields[name] ELSE Undefined

\* a === b, for the primitive values the history is searched for
StrictEquals(a, b) ==
  /\ a.kind = b.kind
  /\ a.kind \in {"undefined", "null", "string", "number", "bigint", "boolean"}
  /\ a = b

Digit(d) ==
  CASE d = 0 -> "0" [] d = 1 -> "1" [] d = 2 -> "2" [] d = 3 -> "3" [] d = 4 -> "4"
    [] d = 5 -> "5" [] d = 6 -> "6" [] d = 7 -> "7" [] d = 8 -> "8" [] d = 9 -> "9"

RECURSIVE NatStr(_)
NatStr(n) == IF n < 10 THEN Digit(n) ELSE NatStr(n \div 10) \o Digit(n % 10)

\* String(n) for an integer n
IntStr(n) == IF n < 0 THEN "-" \o NatStr(0 - n) ELSE NatStr(n)

\* String(v) for a number v
NumStr(v) ==
  IF "half" \notin DOMAIN v THEN IntStr(v.num)
  ELSE IF v.num >= 0 THEN NatStr(v.num) \o ".5"
  ELSE "-" \o NatStr(0 - v.num - 1) \o ".5"

\* The message of the TypeError a conversion to a primitive value throws.
ConversionError == "Cannot convert object to primitive value"

RECURSIVE ToStringThrows(_)
\* The conversion of v to a string, or to a number, throws a TypeError: v is
\* an object whose own toString is not callable (valueOf then returns the
\* object itself), or an array that holds such a value at any depth, since
\* the conversion of an array joins its elements; an element that is
\* undefined or null is not converted.
ToStringThrows(v) ==
  CASE v.kind = "object" -> "toString" \in DOMAIN v.fields
    [] v.kind = "array" ->
         \E i \in 1..Len(v.elems) :
           v.elems[i].kind \notin {"undefined", "null"} /\ ToStringThrows(v.elems[i])
    [] OTHER -> FALSE

RECURSIVE JoinStr(_, _)
RECURSIVE StringOf(_)
\* The string a value converts to, for a value whose conversion returns.
StringOf(v) ==
  CASE v.kind = "undefined" -> "undefined"
    [] v.kind = "null" -> "null"
    [] v.kind = "string" -> v.str
    [] v.kind = "number" -> NumStr(v)
    [] v.kind = "bigint" -> IntStr(v.num)
    [] v.kind = "boolean" -> (IF v.bool THEN "true" ELSE "false")
    [] v.kind = "array" -> JoinStr(v.elems, ",")
    [] OTHER -> "[object Object]"

\* elems.join(sep), when no element throws
JoinStr(elems, sep) ==
  IF elems = <<>> THEN ""
  ELSE LET h == IF Head(elems).kind \in {"undefined", "null"} THEN ""
                ELSE StringOf(Head(elems))
       IN IF Len(elems) = 1 THEN h ELSE h \o sep \o JoinStr(Tail(elems), sep)

\* elems.join(sep) throws
JoinThrows(arr) == ToStringThrows(arr)

\* `${v}`: the text, or the TypeError the conversion throws.
TemplateString(v) ==
  IF ToStringThrows(v) THEN [throws |-> TRUE, message |-> ConversionError]
  ELSE [throws |-> FALSE, str |-> StringOf(v)]

\* The message of the error a throw of new Error(`${prefix}${text}${suffix}`)
\* raises, text being the outcome of the conversion.
ErrorOf(prefix, text, suffix) ==
  IF text.throws THEN text.message ELSE prefix \o text.str \o suffix

\* The message of the error that throw new Error(`${prefix}${v}${suffix}`)
\* raises: that of the Error, or that of the TypeError of the conversion of v.
ErrorWith(prefix, v, suffix) == ErrorOf(prefix, TemplateString(v), suffix)

(***************************************************************************)
(* The conversion of a value to a number, as the comparison of a           *)
(* dependency with a thought number makes it.  The model has the numbers n *)
(* and n + 0.5, and a thought number is one of them: a number in between   *)
(* is rounded down to the next of them, which leaves its comparison with a *)
(* thought number as it is.  The numbers are integers of 32 bits: a        *)
(* literal whose digits or whose value exceed them is not represented.     *)
(***************************************************************************)
NaN == [kind |-> "nan"]

Infinity(sign) == [kind |-> "infinity", sign |-> sign]

\* The number with twice the value t
FromTwice(t) == IF t % 2 = 0 THEN Num(t \div 2) ELSE Half((t - 1) \div 2)

CharAt(s, i) == SubSeq(s, i, i)

\* The value of a digit, 99 for any other character
DigitValue(c) ==
  CASE c = "0" -> 0 [] c = "1" -> 1 [] c = "2" -> 2 [] c = "3" -> 3 [] c = "4" -> 4
    [] c = "5" -> 5 [] c = "6" -> 6 [] c = "7" -> 7 [] c = "8" -> 8 [] c = "9" -> 9
    [] c \in {"a", "A"} -> 10 [] c \in {"b", "B"} -> 11 [] c \in {"c", "C"} -> 12
    [] c \in {"d", "D"} -> 13 [] c \in {"e", "E"} -> 14 [] c \in {"f", "F"} -> 15
    [] OTHER -> 99

\* The value of the digits s in the base, -1 if s is empty or has a character
\* that is no digit of the base
RadixValue(s, base) ==
  LET value[i \in 0..Len(s)] ==
        IF i = 0 THEN 0 ELSE value[i - 1] * base + DigitValue(SubSeq(s, i, i))
  IN IF Len(s) > 0 /\ \A i \in 1..Len(s) : DigitValue(SubSeq(s, i, i)) < base
       THEN value[Len(s)] ELSE 0 - 1

\* 10^e
PowerOfTen(e) == LET p[i \in 0..e] == IF i = 0 THEN 1 ELSE 10 * p[i - 1] IN p[e]

\* The white space and the line terminators the conversion of a string to a
\* number strips (StrWhiteSpaceChar of the grammar of Number(s)): tab, line
\* feed, vertical tab, form feed, carriage return, space, U+00A0 no-break
\* space, U+1680 ogham space mark and U+FEFF zero width no-break space; the
\* four without an escape are written as the characters themselves.  The
\* grammar has sixteen more, U+2000 to U+200A, U+2028, U+2029, U+202F, U+205F
\* and U+3000: a string constant cannot hold a character from U+2000 on, so
\* that no string of the model holds one of them and the set is the whole
\* of StrWhiteSpaceChar on the strings of the model.
StrWhiteSpaceChar ==
  {"\t", "\n", "", "\f", "\r", " ", " ", " ", "﻿"}

\* The string without the white space around it, as Number(s) takes it
Trim(s) ==
  LET inner == {i \in 1..Len(s) : SubSeq(s, i, i) \notin StrWhiteSpaceChar}
  IN IF inner = {} THEN ""
     ELSE SubSeq(s, CHOOSE i \in inner : \A j \in inner : i <= j,
                    CHOOSE i \in inner : \A j \in inner : i >= j)

\* The first position of s that holds a character of the set, 0 if none does
IndexOf(s, set) ==
  LET found == {i \in 1..Len(s) : SubSeq(s, i, i) \in set}
  IN IF found = {} THEN 0 ELSE CHOOSE i \in found : \A j \in found : i <= j

\* numerator / unit, rounded down, or up, to an integer
Divided(numerator, unit, roundUp) ==
  IF roundUp THEN (numerator + unit - 1) \div unit ELSE numerator \div unit

\* Twice digits * 10^exponent, rounded to an integer; -1 when the digits or
\* the exponent are none.
Rounded(digits, exponent, roundUp) ==
  IF digits < 0 THEN 0 - 1
  ELSE IF exponent >= 0 THEN 2 * digits * PowerOfTen(exponent)
  ELSE Divided(2 * digits, PowerOfTen(0 - exponent), roundUp)

\* The mantissa with its point at the position given, 0 if it has none: its
\* digits without the point, and the exponent less the digits after the point.
Pointed(mantissa, point, exponent, roundUp) ==
  IF point = 0 THEN Rounded(RadixValue(mantissa, 10), exponent, roundUp)
  ELSE Rounded(RadixValue(SubSeq(mantissa, 1, point - 1)
                            \o SubSeq(mantissa, point + 1, Len(mantissa)), 10),
               exponent - (Len(mantissa) - point), roundUp)

\* The exponent of a literal: the digits after the e, with a sign or without;
\* none when they are not digits.
ExponentValue(exponent) ==
  LET minus == Len(exponent) > 0 /\ SubSeq(exponent, 1, 1) = "-"
      signed == Len(exponent) > 0 /\ SubSeq(exponent, 1, 1) \in {"+", "-"}
      value == RadixValue(IF signed THEN SubSeq(exponent, 2, Len(exponent)) ELSE exponent, 10)
  IN [none |-> value < 0, value |-> IF minus THEN 0 - value ELSE value]

\* The mantissa of a literal, with its exponent
Exponented(mantissa, exponent, roundUp) ==
  IF exponent.none THEN 0 - 1
  ELSE Pointed(mantissa, IndexOf(mantissa, {"."}), exponent.value, roundUp)

\* The literal with its e at the position given, 0 if it has none
Split(s, e, roundUp) ==
  Exponented(IF e = 0 THEN s ELSE SubSeq(s, 1, e - 1),
             IF e = 0 THEN [none |-> FALSE, value |-> 0]
             ELSE ExponentValue(SubSeq(s, e + 1, Len(s))),
             roundUp)

\* Twice the value of an unsigned decimal literal, rounded down (or up, for
\* a literal that follows a minus sign) to an integer; -1 if s is not one.
\* The literal is digits, a point and digits, with digits on one side of the
\* point at least, and an exponent.
TwiceDecimal(s, roundUp) == Split(s, IndexOf(s, {"e", "E"}), roundUp)

\* The number of a literal with a sign or without, from twice its value.
Signed(twice, minus) ==
  IF twice < 0 THEN NaN ELSE FromTwice(IF minus THEN 0 - twice ELSE twice)

\* The number of a literal from its digits in a base
Radix(value) == IF value < 0 THEN NaN ELSE Num(value)

\* The base of a literal: that of its prefix 0x, 0o or 0b, or 10
BaseOf(t) ==
  LET prefix == IF Len(t) >= 2 THEN SubSeq(t, 1, 2) ELSE ""
  IN CASE prefix \in {"0x", "0X"} -> 16
       [] prefix \in {"0o", "0O"} -> 8
       [] prefix \in {"0b", "0B"} -> 2
       [] OTHER -> 10

\* The number of a string without white space around it, in the base of its
\* prefix, with a sign or without
Literal(t, base, sign) ==
  IF Len(t) = 0 THEN Num(0)
  ELSE IF base # 10 THEN Radix(RadixValue(SubSeq(t, 3, Len(t)), base))
  ELSE IF t \in {"Infinity", "+Infinity"} THEN Infinity(1)
  ELSE IF t = "-Infinity" THEN Infinity(0 - 1)
  ELSE Signed(TwiceDecimal(IF sign \in {"+", "-"} THEN SubSeq(t, 2, Len(t)) ELSE t, sign = "-"),
              sign = "-")

\* The string without white space around it
Trimmed(t) == Literal(t, BaseOf(t), IF Len(t) > 0 THEN SubSeq(t, 1, 1) ELSE "")

\* Number(s) for a string s
StringToNumber(s) == Trimmed(Trim(s))

\* The number v is compared as, for a v whose conversion returns
ToNumber(v) ==
  CASE v.kind = "undefined" -> NaN
    [] v.kind = "null" -> Num(0)
    [] v.kind = "boolean" -> (IF v.bool THEN Num(1) ELSE Num(0))
    [] v.kind = "number" -> v
    [] v.kind = "bigint" -> Num(v.num)
    [] v.kind \in {"string", "array"} ->
         StringToNumber(IF v.kind = "string" THEN v.str ELSE JoinStr(v.elems, ","))
    [] OTHER -> NaN

\* n >= b for the number n a value converts to and a number b
AtLeast(n, b) ==
  CASE n.kind = "nan" -> FALSE
    [] n.kind = "infinity" -> n.sign > 0
    [] OTHER -> Twice(n) >= Twice(b)

\* a >= b for a value a and a number b
GreaterOrEqual(a, b) == AtLeast(ToNumber(a), b)

(***************************************************************************)
(* types.ts                                                                *)
(***************************************************************************)
ThoughtType == <<"problem_definition", "constraints", "model", "proof", "implementation">>

\* Object.values(ThoughtType).includes(v)
IsThoughtType(v) ==
  v.kind = "string" /\ \E i \in 1..Len(ThoughtType) : ThoughtType[i] = v.str

NoError == "<none>"

\* The properties of ShannonThoughtData
Fields ==
  {"thought", "thoughtType", "thoughtNumber", "totalThoughts", "uncertainty",
   "dependencies", "assumptions", "nextThoughtNeeded", "recheckStep", "proofElements",
   "experimentalElements", "implementationNotes", "isRevision", "revisesThought"}

\* const data = input as Record<string, unknown>: an input object is the
\* record of these properties, undefined where it has none; a string, a
\* number, a BigInt or an array has none of them.
Properties(rawInput) ==
  IF "kind" \in DOMAIN rawInput THEN [f \in Fields |-> Undefined] ELSE rawInput

\* The message of the TypeError the first property read throws on an input
\* that is undefined or null; NoError on any other input.
ReadError(rawInput) ==
  IF rawInput = Undefined THEN "Cannot read properties of undefined (reading 'thought')"
  ELSE IF rawInput = Null THEN "Cannot read properties of null (reading 'thought')"
  ELSE NoError

(***************************************************************************)
(* ShannonThinkingServer.validateThoughtData: the checks, in the order of  *)
(* the code; each one throws, so the first that fails decides the message. *)
(***************************************************************************)
ThoughtInvalid(data) == ~Truthy(data.thought) \/ TypeOf(data.thought) # "string"

ThoughtTypeInvalid(data) == ~Truthy(data.thoughtType) \/ ~IsThoughtType(data.thoughtType)

ThoughtNumberInvalid(data) ==
  ~Truthy(data.thoughtNumber) \/ TypeOf(data.thoughtNumber) # "number"

TotalThoughtsInvalid(data) ==
  ~Truthy(data.totalThoughts) \/ TypeOf(data.totalThoughts) # "number"

\* UncertaintyInvalid with the truthiness test the neighbouring checks use: it
\* rejects 0.
UncertaintyInvalid_Falsy(data) ==
  \/ ~Truthy(data.uncertainty)
  \/ TypeOf(data.uncertainty) # "number"
  \/ Twice(data.uncertainty) < 0
  \/ Twice(data.uncertainty) > 2

UncertaintyInvalid(data) ==
  \/ TypeOf(data.uncertainty) # "number"
  \/ Twice(data.uncertainty) < 0
  \/ Twice(data.uncertainty) > 2

DependenciesInvalid(data) == ~IsArray(data.dependencies)

AssumptionsInvalid(data) == ~IsArray(data.assumptions)

NextThoughtNeededInvalid(data) == TypeOf(data.nextThoughtNeeded) # "boolean"

\* if (data.recheckStep) { ... }
RecheckStepError(data) ==
  LET recheck == data.recheckStep IN
  IF ~Truthy(recheck) THEN NoError
  ELSE IF ~Truthy(Prop(recheck, "stepToRecheck")) \/ ~IsThoughtType(Prop(recheck, "stepToRecheck"))
    THEN "Invalid recheckStep: stepToRecheck must be a valid ThoughtType"
  ELSE IF ~Truthy(Prop(recheck, "reason")) \/ TypeOf(Prop(recheck, "reason")) # "string"
    THEN "Invalid recheckStep: reason must be a string"
  ELSE IF Truthy(Prop(recheck, "newInformation")) /\ TypeOf(Prop(recheck, "newInformation")) # "string"
    THEN "Invalid recheckStep: newInformation must be a string if provided"
  ELSE NoError

\* ProofElementsError tied to the stage: proofElements are turned away on a
\* thought that is not a proof.
ProofElementsError_ProofOnly(data) ==
  LET proof == data.proofElements IN
  IF ~Truthy(proof) THEN NoError
  ELSE IF data.thoughtType # Str("proof")
    THEN "Invalid proofElements: thoughtType must be proof"
  ELSE IF ~Truthy(Prop(proof, "hypothesis")) \/ TypeOf(Prop(proof, "hypothesis")) # "string"
    THEN "Invalid proofElements: hypothesis must be a string"
  ELSE IF ~Truthy(Prop(proof, "validation")) \/ TypeOf(Prop(proof, "validation")) # "string"
    THEN "Invalid proofElements: validation must be a string"
  ELSE NoError

\* if (data.proofElements) { ... }
ProofElementsError(data) ==
  LET proof == data.proofElements IN
  IF ~Truthy(proof) THEN NoError
  ELSE IF ~Truthy(Prop(proof, "hypothesis")) \/ TypeOf(Prop(proof, "hypothesis")) # "string"
    THEN "Invalid proofElements: hypothesis must be a string"
  ELSE IF ~Truthy(Prop(proof, "validation")) \/ TypeOf(Prop(proof, "validation")) # "string"
    THEN "Invalid proofElements: validation must be a string"
  ELSE NoError

\* exp.confidence is not a number in [0, 1]
ExperimentConfidenceInvalid(exp) ==
  \/ TypeOf(Prop(exp, "confidence")) # "number"
  \/ Twice(Prop(exp, "confidence")) < 0
  \/ Twice(Prop(exp, "confidence")) > 2

\* if (data.experimentalElements) { ... }
ExperimentalElementsError(data) ==
  LET exp == data.experimentalElements IN
  IF ~Truthy(exp) THEN NoError
  ELSE IF ~Truthy(Prop(exp, "testDescription")) \/ TypeOf(Prop(exp, "testDescription")) # "string"
    THEN "Invalid experimentalElements: testDescription must be a string"
  ELSE IF ~Truthy(Prop(exp, "results")) \/ TypeOf(Prop(exp, "results")) # "string"
    THEN "Invalid experimentalElements: results must be a string"
  ELSE IF ExperimentConfidenceInvalid(exp)
    THEN "Invalid experimentalElements: confidence must be a number between 0 and 1"
  ELSE IF ~IsArray(Prop(exp, "limitations"))
    THEN "Invalid experimentalElements: limitations must be an array"
  ELSE NoError

\* if (data.implementationNotes) { ... }
ImplementationNotesError(data) ==
  LET impl == data.implementationNotes IN
  IF ~Truthy(impl) THEN NoError
  ELSE IF ~IsArray(Prop(impl, "practicalConstraints"))
    THEN "Invalid implementationNotes: practicalConstraints must be an array"
  ELSE IF ~Truthy(Prop(impl, "proposedSolution")) \/ TypeOf(Prop(impl, "proposedSolution")) # "string"
    THEN "Invalid implementationNotes: proposedSolution must be a string"
  ELSE NoError

\* the optional revision validation
RevisionFieldsError(data) ==
  IF data.isRevision # Undefined /\ TypeOf(data.isRevision) # "boolean"
    THEN "Invalid isRevision: must be a boolean if provided"
  ELSE IF data.revisesThought = Undefined THEN NoError
  ELSE IF TypeOf(data.revisesThought) # "number" \/ Twice(data.revisesThought) < 2
    THEN "Invalid revisesThought: must be a positive number if provided"
  ELSE IF ~Truthy(data.isRevision)
    THEN "Invalid revisesThought: cannot be set without isRevision being true"
  ELSE NoError

\* The message of the Error validateThoughtData throws on data; NoError when it
\* returns.
ValidationError(rawInput) ==
  IF ReadError(rawInput) # NoError THEN ReadError(rawInput)
  ELSE LET data == Properties(rawInput) IN
  IF ThoughtInvalid(data)
    THEN "Invalid thought: must be a string, received " \o TypeOf(data.thought)
  ELSE IF ThoughtTypeInvalid(data)
    THEN ErrorWith("Invalid thoughtType: must be one of: "
                     \o JoinStr([i \in 1..Len(ThoughtType) |-> Str(ThoughtType[i])], ", ")
                     \o ", received ", data.thoughtType, "")
  ELSE IF ThoughtNumberInvalid(data)
    THEN "Invalid thoughtNumber: must be a number, received " \o TypeOf(data.thoughtNumber)
  ELSE IF TotalThoughtsInvalid(data)
    THEN "Invalid totalThoughts: must be a number, received " \o TypeOf(data.totalThoughts)
  ELSE IF UncertaintyInvalid(data)
    THEN ErrorWith("Invalid uncertainty: must be a number between 0 and 1, received ",
                   data.uncertainty, "")
  ELSE IF DependenciesInvalid(data)
    THEN "Invalid dependencies: must be an array, received " \o TypeOf(data.dependencies)
  ELSE IF AssumptionsInvalid(data)
    THEN "Invalid assumptions: must be an array, received " \o TypeOf(data.assumptions)
  ELSE IF NextThoughtNeededInvalid(data)
    THEN "Invalid nextThoughtNeeded: must be a boolean, received "
           \o TypeOf(data.nextThoughtNeeded)
  ELSE IF RecheckStepError(data) # NoError THEN RecheckStepError(data)
  ELSE IF ProofElementsError(data) # NoError THEN ProofElementsError(data)
  ELSE IF ExperimentalElementsError(data) # NoError THEN ExperimentalElementsError(data)
  ELSE IF ImplementationNotesError(data) # NoError THEN ImplementationNotesError(data)
  ELSE RevisionFieldsError(data)

\* The object validateThoughtData returns: the fields of data, cast and not
\* converted.
validateThoughtData(rawInput) ==
  LET data == Properties(rawInput) IN
  [thought |-> data.thought,
   thoughtType |-> data.thoughtType,
   thoughtNumber |-> data.thoughtNumber,
   totalThoughts |-> data.totalThoughts,
   uncertainty |-> data.uncertainty,
   dependencies |-> data.dependencies,
   assumptions |-> data.assumptions,
   nextThoughtNeeded |-> data.nextThoughtNeeded,
   recheckStep |-> data.recheckStep,
   proofElements |-> data.proofElements,
   experimentalElements |-> data.experimentalElements,
   implementationNotes |-> data.implementationNotes,
   isRevision |-> data.isRevision,
   revisesThought |-> data.revisesThought]

(***************************************************************************)
(* ShannonThinkingServer.formatThought: only whether it throws matters to  *)
(* the tracker; the text it builds is printed and dropped.                 *)
(***************************************************************************)
\* The message of the TypeError formatThought throws on thoughtData; NoError
\* when it returns.  The joins of the string lists are the calls that can
\* throw on a validated record: the Validator checks the lists to be arrays
\* and leaves their elements alone.
formatThought(thoughtData) ==
  IF \/ JoinThrows(thoughtData.dependencies)
     \/ JoinThrows(thoughtData.assumptions)
     \/ Truthy(thoughtData.experimentalElements)
          /\ JoinThrows(Prop(thoughtData.experimentalElements, "limitations"))
     \/ Truthy(thoughtData.implementationNotes)
          /\ JoinThrows(Prop(thoughtData.implementationNotes, "practicalConstraints"))
    THEN "Cannot convert object to primitive value"
    ELSE NoError

(***************************************************************************)
(* ShannonThinkingServer.processThought                                    *)
(***************************************************************************)
\* CorrectTotal without the correction.
CorrectTotal_Never(validatedInput) == validatedInput

\* if (thoughtNumber > totalThoughts) totalThoughts = thoughtNumber
CorrectTotal(validatedInput) ==
  IF Twice(validatedInput.thoughtNumber) > Twice(validatedInput.totalThoughts)
    THEN [validatedInput EXCEPT !.totalThoughts = validatedInput.thoughtNumber]
    ELSE validatedInput

\* n > b for the number n a value converts to and a number b
Above(n, b) ==
  CASE n.kind = "nan" -> FALSE
    [] n.kind = "infinity" -> n.sign > 0
    [] OTHER -> Twice(n) > Twice(b)

\* IsFuture with > for >=: a thought may refer to itself.
IsFuture_Strict(depNumber, thoughtNumber) == Above(ToNumber(depNumber), thoughtNumber)

\* depNumber >= validatedInput.thoughtNumber, for a depNumber of any type whose
\* conversion to a number returns: the comparison converts it, and is false
\* for one that converts to NaN
IsFuture(depNumber, thoughtNumber) == GreaterOrEqual(depNumber, thoughtNumber)

\* ExistsInHistory by position: takes the thought numbers to be 1, 2, ...
ExistsInHistory_ByLength(history, n) == n.kind = "number" /\ n.num <= Len(history)

\* ExistsInHistory that looks at the last entry only.
ExistsInHistory_LastOnly(history, n) ==
  history # <<>> /\ StrictEquals(history[Len(history)].thoughtNumber, n)

\* this.thoughtHistory.some(t => t.thoughtNumber === n)
ExistsInHistory(history, n) ==
  \E i \in 1..Len(history) : StrictEquals(history[i].thoughtNumber, n)

RECURSIVE DependencyError_ExistenceFirst(_, _, _)
\* DependencyError with the two tests of an element swapped.
DependencyError_ExistenceFirst(deps, thoughtNumber, history) ==
  IF deps = <<>> THEN NoError
  ELSE IF ~ExistsInHistory(history, Head(deps))
    THEN ErrorWith("Invalid dependency: thought ", Head(deps), " does not exist")
  ELSE IF IsFuture(Head(deps), thoughtNumber)
    THEN ErrorWith("Invalid dependency: cannot depend on future thought ", Head(deps), "")
  ELSE DependencyError_ExistenceFirst(Tail(deps), thoughtNumber, history)

RECURSIVE DependencyError(_, _, _)
\* The message of the error the loop over validatedInput.dependencies throws;
\* NoError when the loop ends.  The elements are of any type: the first test
\* converts the element to a number, and throws a TypeError for an element
\* that does not convert; the second compares it with === and finds no entry
\* for an element that is not a number.
DependencyError(deps, thoughtNumber, history) ==
  IF deps = <<>> THEN NoError
  ELSE IF ToStringThrows(Head(deps)) THEN ConversionError
  ELSE IF IsFuture(Head(deps), thoughtNumber)
    THEN ErrorWith("Invalid dependency: cannot depend on future thought ", Head(deps), "")
  ELSE IF ~ExistsInHistory(history, Head(deps))
    THEN ErrorWith("Invalid dependency: thought ", Head(deps), " does not exist")
  ELSE DependencyError(Tail(deps), thoughtNumber, history)

\* HasRevisionTarget without the test of revisesThought.
HasRevisionTarget_IsRevisionOnly(validatedInput) == Truthy(validatedInput.isRevision)

\* if (validatedInput.isRevision && validatedInput.revisesThought !== undefined)
HasRevisionTarget(validatedInput) ==
  Truthy(validatedInput.isRevision) /\ validatedInput.revisesThought # Undefined

\* The message of the Error the revision target check throws; NoError when it
\* passes or does not apply.
RevisionError(validatedInput, history) ==
  IF ~HasRevisionTarget(validatedInput) THEN NoError
  ELSE IF IsFuture(validatedInput.revisesThought, validatedInput.thoughtNumber)
    THEN ErrorWith("Invalid revision: cannot revise future thought ",
                   validatedInput.revisesThought, "")
  ELSE IF ~ExistsInHistory(history, validatedInput.revisesThought)
    THEN ErrorWith("Invalid revision: thought ", validatedInput.revisesThought,
                   " does not exist")
  ELSE NoError

\* The position of a stage in the methodology.
StageIndex(thoughtType) == CHOOSE i \in 1..Len(ThoughtType) : ThoughtType[i] = thoughtType.str

\* AdmissionError with the stages in order: a record of an earlier stage than
\* the last entry's is turned away.
AdmissionError_StageOrder(data, history) ==
  IF ValidationError(data) # NoError THEN ValidationError(data)
  ELSE LET validatedInput == CorrectTotal(validateThoughtData(data)) IN
    IF /\ history # <<>>
       /\ StageIndex(validatedInput.thoughtType) < StageIndex(history[Len(history)].thoughtType)
      THEN "Invalid thoughtType: out of order"
    ELSE IF DependencyError(validatedInput.dependencies.elems, validatedInput.thoughtNumber, history) # NoError
      THEN DependencyError(validatedInput.dependencies.elems, validatedInput.thoughtNumber, history)
    ELSE RevisionError(validatedInput, history)

\* AdmissionError with the revision check before the dependency check.
AdmissionError_RevisionFirst(data, history) ==
  LET invalid == ValidationError(data) IN
  IF invalid # NoError THEN invalid
  ELSE LET validatedInput == CorrectTotal(validateThoughtData(data))
           revision == RevisionError(validatedInput, history)
       IN IF revision # NoError THEN revision
          ELSE DependencyError(validatedInput.dependencies.elems,
                               validatedInput.thoughtNumber, history)

\* AdmissionError with a cross-record check of recheckStep: the stage to
\* recheck must be the stage of an entry of the history.
AdmissionError_RecheckNeedsStage(data, history) ==
  LET invalid == ValidationError(data) IN
  IF invalid # NoError THEN invalid
  ELSE LET validatedInput == CorrectTotal(validateThoughtData(data))
           dependency ==
             DependencyError(validatedInput.dependencies.elems, validatedInput.thoughtNumber, history)
       IN IF dependency # NoError THEN dependency
          ELSE IF /\ Truthy(validatedInput.recheckStep)
                  /\ \A i \in 1..Len(history) :
                       history[i].thoughtType # Prop(validatedInput.recheckStep, "stepToRecheck")
            THEN "Invalid recheckStep: no thought of the stage to recheck"
          ELSE RevisionError(validatedInput, history)

\* The message of the first Error thrown before the push; NoError when the
\* push is reached.
AdmissionError(data, history) ==
  LET invalid == ValidationError(data) IN
  IF invalid # NoError THEN invalid
  ELSE LET validatedInput == CorrectTotal(validateThoughtData(data))
           dependency ==
             DependencyError(validatedInput.dependencies.elems, validatedInput.thoughtNumber, history)
       IN IF dependency # NoError THEN dependency
          ELSE RevisionError(validatedInput, history)

\* this.thoughtHistory after the call: the push comes before formatThought.
HistoryAfter(data, history) ==
  IF AdmissionError(data, history) # NoError THEN history
  ELSE Append(history, CorrectTotal(validateThoughtData(data)))

\* The message of the Error the catch block receives; NoError when the try
\* block returns.
CaughtError(data, history) ==
  LET admission == AdmissionError(data, history) IN
  IF admission # NoError THEN admission
  ELSE formatThought(CorrectTotal(validateThoughtData(data)))

\* Summary without the revision target.
Summary_NoRevisesThought(validatedInput, history) ==
  [isError |-> FALSE,
   content |->
     [thoughtNumber |-> validatedInput.thoughtNumber,
      totalThoughts |-> validatedInput.totalThoughts,
      nextThoughtNeeded |-> validatedInput.nextThoughtNeeded,
      thoughtType |-> validatedInput.thoughtType,
      uncertainty |-> validatedInput.uncertainty,
      thoughtHistoryLength |-> Len(history),
      isRevision |-> validatedInput.isRevision,
      revisesThought |-> Undefined,
      hasExperimentalValidation |-> Truthy(validatedInput.experimentalElements),
      hasRecheckStep |-> Truthy(validatedInput.recheckStep)]]

\* The object the try block returns (the parsed text of its content).
Summary(validatedInput, history) ==
  [isError |-> FALSE,
   content |->
     [thoughtNumber |-> validatedInput.thoughtNumber,
      totalThoughts |-> validatedInput.totalThoughts,
      nextThoughtNeeded |-> validatedInput.nextThoughtNeeded,
      thoughtType |-> validatedInput.thoughtType,
      uncertainty |-> validatedInput.uncertainty,
      thoughtHistoryLength |-> Len(history),
      isRevision |-> validatedInput.isRevision,
      revisesThought |-> validatedInput.revisesThought,
      hasExperimentalValidation |-> Truthy(validatedInput.experimentalElements),
      hasRecheckStep |-> Truthy(validatedInput.recheckStep)]]

RECURSIVE StringifyThrows(_)
\* JSON.stringify(v) throws a TypeError: v is or holds a BigInt.
StringifyThrows(v) ==
  IF "kind" \notin DOMAIN v THEN \E f \in DOMAIN v : StringifyThrows(v[f])
  ELSE CASE v.kind = "bigint" -> TRUE
         [] v.kind = "array" -> \E i \in 1..Len(v.elems) : StringifyThrows(v.elems[i])
         [] v.kind = "object" -> \E f \in DOMAIN v.fields : StringifyThrows(v.fields[f])
         [] OTHER -> FALSE

RECURSIVE Stringify(_)
\* The value the text JSON.stringify(v) denotes, Undefined when it returns
\* undefined: a property that is undefined is left out, an element that is
\* undefined is written null.
Stringify(v) ==
  IF "kind" \notin DOMAIN v
    THEN [f \in {g \in DOMAIN v : v[g] # Undefined} |-> Stringify(v[f])]
  ELSE CASE v.kind = "array" ->
              Arr([i \in 1..Len(v.elems) |->
                     IF v.elems[i] = Undefined THEN Null ELSE Stringify(v.elems[i])])
         [] v.kind = "object" ->
              Obj([f \in {g \in DOMAIN v.fields : v.fields[g] # Undefined} |->
                     Stringify(v.fields[f])])
         [] OTHER -> v

\* The object the catch block returns (the parsed text of its content); the
\* key receivedInput is left out when JSON.stringify(input) is undefined.
Rejection(message, data, history) ==
  LET progress ==
        [thoughtHistoryLength |-> Len(history),
         lastValidThought |->
           IF Len(history) > 0 THEN history[Len(history)].thoughtNumber ELSE Null]
      receivedInput == Stringify(data)
  IN [isError |-> TRUE,
      content |->
        [error |-> message,
         details |->
           IF receivedInput = Undefined THEN progress
           ELSE [receivedInput |-> receivedInput,
                 thoughtHistoryLength |-> progress.thoughtHistoryLength,
                 lastValidThought |-> progress.lastValidThought],
         status |-> "failed"]]

\* The message of the TypeError that leaves processThought: the one
\* JSON.stringify(input) throws in the catch block; NoError when the call
\* returns.
Thrown(data, history) ==
  IF CaughtError(data, history) # NoError /\ StringifyThrows(data)
    THEN "Do not know how to serialize a BigInt"
    ELSE NoError

(***************************************************************************)
(* Bounds and inputs                                                       *)
(***************************************************************************)
\* The calls stop once the history holds this many thoughts.
MaxHistory == 2

\* The thought numbers, dependencies and revision targets submitted.
MaxThoughtNumber == 3

ThoughtNumbers == 1..MaxThoughtNumber

\* A record that passes every check on an empty history.
BaseThought ==
  [thought |-> Str("A"),
   thoughtType |-> Str("model"),
   thoughtNumber |-> Num(1),
   totalThoughts |-> Num(2),
   uncertainty |-> Num(0),
   dependencies |-> Arr(<<>>),
   assumptions |-> Arr(<<>>),
   nextThoughtNeeded |-> Bool(TRUE),
   recheckStep |-> Undefined,
   proofElements |-> Undefined,
   experimentalElements |-> Undefined,
   implementationNotes |-> Undefined,
   isRevision |-> Undefined,
   revisesThought |-> Undefined]

\* Dependency lists of up to one number, and of up to two, in both orders and
\* with repeats.
ShortLists == {<<>>} \cup {<<Num(a)>> : a \in ThoughtNumbers}

DependencyLists ==
  ShortLists \cup {<<Num(a), Num(b)>> : a \in ThoughtNumbers, b \in ThoughtNumbers}

\* <<isRevision, revisesThought>>
Revisions ==
  {<<Undefined, Undefined>>, <<Bool(TRUE), Undefined>>, <<Bool(FALSE), Undefined>>}
    \cup {<<Bool(TRUE), Num(r)>> : r \in ThoughtNumbers}

\* An object whose conversion to a string throws: {"toString": null}.
NoToString == Obj([toString |-> Null])

\* Inputs that are not objects.
RawInputs == {Undefined, Null, Str("A"), BigInt(10)}

\* The records submitted to the tracker: every thought number with every
\* dependency list, and with every revision and short dependency list; the
\* total estimates around the thought number; assumptions that are and are
\* not strings; records the Validator rejects, with and without a dependency
\* that is forward or names no entry; dependencies that are not numbers,
\* some of which do not convert to one, with and without a revision target
\* that is forward.
TrackerInputs ==
  {[BaseThought EXCEPT !.thoughtNumber = Num(n), !.dependencies = Arr(d)] :
     n \in ThoughtNumbers, d \in DependencyLists}
  \cup {[BaseThought EXCEPT !.thoughtNumber = Num(n), !.dependencies = Arr(d),
                            !.isRevision = r[1], !.revisesThought = r[2]] :
     n \in ThoughtNumbers, d \in ShortLists, r \in Revisions}
  \cup {[BaseThought EXCEPT !.thoughtNumber = Num(n), !.totalThoughts = Num(t)] :
     n \in ThoughtNumbers, t \in {1, MaxThoughtNumber + 1}}
  \cup {[BaseThought EXCEPT !.thoughtNumber = Num(n), !.assumptions = Arr(a)] :
     n \in ThoughtNumbers, a \in {<<Str("x")>>, <<Str("x"), NoToString>>}}
  \cup {[BaseThought EXCEPT !.thoughtNumber = Num(n), !.assumptions = Arr(<<NoToString>>),
                            !.isRevision = Bool(TRUE), !.revisesThought = Num(1)] :
     n \in ThoughtNumbers}
  \cup {[BaseThought EXCEPT !.thought = Undefined],
        [BaseThought EXCEPT !.thoughtNumber = Num(0)],
        [BaseThought EXCEPT !.uncertainty = Num(2)],
        [BaseThought EXCEPT !.dependencies = Undefined],
        [BaseThought EXCEPT !.revisesThought = Num(1)],
        [BaseThought EXCEPT !.uncertainty = Num(2), !.dependencies = Arr(<<Num(1)>>)],
        [BaseThought EXCEPT !.thoughtNumber = Num(2), !.nextThoughtNeeded = Null,
                            !.dependencies = Arr(<<Num(1)>>)]}
  \cup {[BaseThought EXCEPT !.thoughtNumber = Num(n), !.dependencies = Arr(d),
                            !.isRevision = r[1], !.revisesThought = r[2]] :
     n \in {1, 2},
     d \in {<<Null>>, <<Str("1")>>, <<Str("2")>>, <<NoToString>>,
            <<NoToString, Num(3)>>, <<Num(1), Arr(<<NoToString>>)>>},
     r \in {<<Undefined, Undefined>>, <<Bool(TRUE), Num(3)>>}}

\* The inputs of the open specification: every stage at every thought number
\* with a short dependency list; the last thought of a sequence; numbers that
\* are zero, negative or fractions; a list element that is not a string;
\* a thoughtType whose conversion to a string throws; dependencies that are
\* not numbers; inputs that are not objects.
AnyInputs ==
  {[BaseThought EXCEPT !.thoughtNumber = Num(n), !.thoughtType = Str(ThoughtType[t]),
                       !.dependencies = Arr(d)] :
     n \in ThoughtNumbers, t \in 1..Len(ThoughtType), d \in ShortLists}
  \cup {[BaseThought EXCEPT !.thoughtNumber = Num(n), !.nextThoughtNeeded = Bool(FALSE)] :
     n \in ThoughtNumbers}
  \cup {[BaseThought EXCEPT !.thoughtNumber = n, !.totalThoughts = t] :
     n \in {Num(0 - 1), Half(1)}, t \in {Num(0 - 2), Half(0)}}
  \cup {[BaseThought EXCEPT !.thoughtNumber = Num(0)],
        [BaseThought EXCEPT !.assumptions = Arr(<<Str("x"), NoToString>>)],
        [BaseThought EXCEPT !.assumptions = Arr(<<Str("x"), Arr(<<NoToString>>)>>)],
        [BaseThought EXCEPT !.thoughtType = NoToString]}
  \cup {[BaseThought EXCEPT !.thoughtNumber = n, !.dependencies = Arr(<<d>>)] :
          n \in {Num(0 - 1), Num(2)},
          d \in {Null, Bool(TRUE), Str("1"), Str("2"), Str("\f2 "), Str(" 2﻿"),
                 Arr(<<>>),
                 Arr(<<Arr(<<Num(5)>>)>>), NoToString}}
  \cup RawInputs

\* The calls of the Validator's specification stop once the history holds
\* this many thoughts.
MaxValidated == 1

RecheckStep(step, reason, newInformation) ==
  Obj([stepToRecheck |-> step, reason |-> reason, newInformation |-> newInformation])

ProofElements(hypothesis, validation) ==
  Obj([hypothesis |-> hypothesis, validation |-> validation])

ExperimentalElements(testDescription, results, confidence, limitations) ==
  Obj([testDescription |-> testDescription, results |-> results,
       confidence |-> confidence, limitations |-> limitations])

ImplementationNotes(practicalConstraints, proposedSolution) ==
  Obj([practicalConstraints |-> practicalConstraints, proposedSolution |-> proposedSolution])

\* For each field of a record, the values it takes besides BaseThought's:
\* missing, of the wrong type, out of range, and well-formed; for a
\* structured field also a value that is not an object and that JavaScript
\* takes as false; values whose conversion to a string throws, alone and
\* inside a list; dependencies that are not numbers.
FieldValues ==
  [thought |-> {Undefined, Str(""), Num(1)},
   thoughtType |->
     {Undefined, Str("abstraction"), Str("proof"), Str("implementation"), NoToString},
   thoughtNumber |-> {Undefined, Num(0), Str("1"), Num(2)},
   totalThoughts |-> {Undefined, Num(0), Str("2"), Num(1)},
   uncertainty |-> {Undefined, Str("0"), Num(0 - 1), Num(1), Num(2), Arr(<<NoToString>>)},
   dependencies |->
     {Undefined, Str("1"), Arr(<<Num(1)>>), Arr(<<Null>>), Arr(<<Str("2")>>),
      Arr(<<NoToString>>)},
   assumptions |->
     {Undefined, Str("x"), Arr(<<Str("x")>>), Arr(<<NoToString>>),
      Arr(<<Arr(<<NoToString>>)>>)},
   nextThoughtNeeded |-> {Undefined, Str("true"), Bool(FALSE)},
   recheckStep |->
     {Null, Str("constraints"),
      RecheckStep(Str("constraints"), Str("r"), Undefined),
      RecheckStep(Str("constraints"), Str("r"), Str("n")),
      RecheckStep(Str("constraints"), Str("r"), Num(1)),
      RecheckStep(Str("step"), Str("r"), Undefined),
      RecheckStep(Str("constraints"), Undefined, Undefined)},
   proofElements |->
     {ProofElements(Str("h"), Str("v")),
      ProofElements(Undefined, Str("v")),
      ProofElements(Str("h"), Num(1))},
   experimentalElements |->
     {ExperimentalElements(Str("t"), Str("r"), c, Arr(<<Str("l")>>)) :
        c \in {Undefined, Num(0 - 1), Num(0), Num(1), Num(2)}}
     \cup {Bool(FALSE),
           ExperimentalElements(Str(""), Str("r"), Num(2), Arr(<<>>)),
           ExperimentalElements(Str("t"), Undefined, Num(0), Arr(<<>>)),
           ExperimentalElements(Str("t"), Str("r"), Num(1), Undefined)},
   implementationNotes |->
     {ImplementationNotes(Arr(<<Str("c")>>), Str("s")),
      ImplementationNotes(Undefined, Str("s")),
      ImplementationNotes(Arr(<<>>), Str(""))},
   isRevision |-> {Null, Str("true"), Bool(TRUE), Bool(FALSE)},
   revisesThought |-> {Str("1"), Num(0), Num(1), Half(1)}]

\* The records submitted to the Validator: BaseThought with up to two of its
\* fields replaced.
ValidatorInputs ==
  UNION {UNION {{[[BaseThought EXCEPT ![f] = v] EXCEPT ![g] = w] :
                   v \in FieldValues[f], w \in FieldValues[g]} :
                g \in DOMAIN FieldValues} :
         f \in DOMAIN FieldValues}
  \cup {BaseThought}

(***************************************************************************)
(* The tracker as a state machine.  A call of processThought runs to its   *)
(* return in one step; the request handler then hands the response to the  *)
(* caller, and the tracker waits for the next call.  thrown is the message *)
(* of the exception that left the call, before the history the call in     *)
(* hand started from, accepted the number of calls that returned a         *)
(* Summary, and lastAccepted the thoughtNumber of the last of them.        *)
(*                                                                         *)
(* There are two trackers: tracker 1 is the server's thinkingServer, whose *)
(* history is thoughtHistory, and tracker 2 is a second instance of the    *)
(* class, as the tests construct one, whose history is otherHistory.       *)
(* callee is the tracker the call in hand was made on, 0 when there is     *)
(* none.                                                                   *)
(*                                                                         *)
(* calls holds the tool calls of the specification of pending calls, in    *)
(* which a call of processThought is taken statement by statement: for     *)
(* each call its position pc, the arguments data it carries and the result *)
(* it returned.                                                            *)
(*                                                                         *)
(* older is a tracker of the older variant of the class, which the         *)
(* specification of the two variants feeds the same records: its history,  *)
(* what it returned to the call in hand, and what that call threw.         *)
(***************************************************************************)
NoInput == [kind |-> "none"]

NoResponse == [isError |-> FALSE, content |-> [none |-> TRUE]]

\* What processThought returns on data when this.thoughtHistory is history;
\* NoResponse when it throws.
Response(data, history) ==
  LET caught == CaughtError(data, history) IN
  IF Thrown(data, history) # NoError THEN NoResponse
  ELSE IF caught # NoError
    THEN Rejection(caught, data, HistoryAfter(data, history))
    ELSE Summary(CorrectTotal(validateThoughtData(data)), HistoryAfter(data, history))

\* The instances of ShannonThinkingServer.
Trackers == {1, 2}

\* A thoughtHistory shared by every instance, as a static field would be.
HistoryOf_Static(tracker) == thoughtHistory

\* this.thoughtHistory of an instance: a field of its own.
HistoryOf(tracker) == IF tracker = 1 THEN thoughtHistory ELSE otherHistory

\* The shannonthinking tool calls that can be pending together.
Calls == {1, 2}

\* A call that has not arrived.
NoCall == [pc |-> "none", data |-> NoInput, result |-> NoResponse]

Init ==
  /\ calls = [c \in Calls |-> NoCall]
  /\ older = [thoughtHistory |-> <<>>, response |-> NoResponse, thrown |-> NoError]
  /\ thoughtHistory = <<>>
  /\ otherHistory = <<>>
  /\ callee = 0
  /\ input = NoInput
  /\ response = NoResponse
  /\ thrown = NoError
  /\ before = <<>>
  /\ accepted = 0
  /\ lastAccepted = Null

processThought(data) ==
  /\ input = NoInput
  /\ callee' = 1
  /\ UNCHANGED <<otherHistory, calls, older>>
  /\ thoughtHistory' = HistoryAfter(data, thoughtHistory)
  /\ response' = Response(data, thoughtHistory)
  /\ thrown' = Thrown(data, thoughtHistory)
  /\ input' = data
  /\ before' = thoughtHistory
  /\ LET caught == CaughtError(data, thoughtHistory) IN
       /\ accepted' = IF caught = NoError THEN accepted + 1 ELSE accepted
       /\ lastAccepted' = IF caught = NoError
                            THEN Properties(data).thoughtNumber ELSE lastAccepted

\* The CallTool request handler returns what processThought returned.
ReturnResponse ==
  /\ input # NoInput
  /\ input' = NoInput
  /\ response' = NoResponse
  /\ thrown' = NoError
  /\ before' = thoughtHistory
  /\ callee' = 0
  /\ older' = [older EXCEPT !.response = NoResponse, !.thrown = NoError]
  /\ UNCHANGED <<thoughtHistory, otherHistory, accepted, lastAccepted, calls>>

\* A call is made when none is in hand: calls do not overlap.
Next ==
  \/ /\ input = NoInput
     /\ Len(thoughtHistory) < MaxHistory
     /\ \E data \in TrackerInputs : processThought(data)
  \/ ReturnResponse

Spec == Init /\ [][Next]_vars

\* The open specification: the same tracker, fed the inputs of AnyInputs.
NextAnyInput ==
  \/ /\ input = NoInput
     /\ Len(thoughtHistory) < MaxHistory
     /\ \E data \in AnyInputs : processThought(data)
  \/ ReturnResponse

SpecAnyInput == Init /\ [][NextAnyInput]_vars

\* The Validator's specification: the same tracker, fed the records of
\* ValidatorInputs.
NextValidator ==
  \/ /\ input = NoInput
     /\ Len(thoughtHistory) < MaxValidated
     /\ \E data \in ValidatorInputs : processThought(data)
  \/ ReturnResponse

SpecValidator == Init /\ [][NextValidator]_vars

\* The calls on each of two trackers stop once its history holds this many
\* thoughts.
MaxPerTracker == 1

\* The records submitted to the two trackers: every thought number with
\* every short dependency list.
TwoTrackerInputs ==
  {[BaseThought EXCEPT !.thoughtNumber = Num(n), !.dependencies = Arr(d)] :
     n \in ThoughtNumbers, d \in ShortLists}

\* processThought called on the second instance: it reads and writes the
\* history of that instance.
processThoughtOther(data) ==
  LET history == HistoryOf(2)
  IN /\ input = NoInput
     /\ callee' = 2
     /\ otherHistory' = HistoryAfter(data, history)
     /\ response' = Response(data, history)
     /\ thrown' = Thrown(data, history)
     /\ input' = data
     /\ before' = history
     /\ UNCHANGED <<thoughtHistory, accepted, lastAccepted, calls, older>>

\* The specification of two trackers: calls are made on either.
NextTwoTrackers ==
  \/ /\ input = NoInput
     /\ Len(thoughtHistory) < MaxPerTracker
     /\ \E data \in TwoTrackerInputs : processThought(data)
  \/ /\ input = NoInput
     /\ Len(otherHistory) < MaxPerTracker
     /\ \E data \in TwoTrackerInputs : processThoughtOther(data)
  \/ ReturnResponse

SpecTwoTrackers == Init /\ [][NextTwoTrackers]_vars

\* The records of the specification of recheck requests: every thought
\* number with every short dependency list, as a model or a proof, with and
\* without a request to recheck the proof stage.
RecheckInputs ==
  {[BaseThought EXCEPT !.thoughtNumber = Num(n), !.dependencies = Arr(d),
                       !.thoughtType = t, !.recheckStep = r] :
     n \in ThoughtNumbers, d \in ShortLists, t \in {Str("model"), Str("proof")},
     r \in {Undefined, RecheckStep(Str("proof"), Str("r"), Undefined),
            RecheckStep(Str("proof"), Str("r"), Str("n"))}}

NextRecheck ==
  \/ /\ input = NoInput
     /\ Len(thoughtHistory) < MaxHistory
     /\ \E data \in RecheckInputs : processThought(data)
  \/ ReturnResponse

SpecRecheck == Init /\ [][NextRecheck]_vars

\* The records of the specification of Summaries: every thought number, as
\* a first submission and as a revision of thought 1, with
\* experimentalElements and recheckStep absent, false or null, and an object;
\* and a proof with a fractional uncertainty and isRevision false that is the
\* last of its sequence.
SummaryInputs ==
  {[BaseThought EXCEPT !.thoughtNumber = Num(n),
                       !.isRevision = r[1], !.revisesThought = r[2],
                       !.experimentalElements = e, !.recheckStep = c] :
     n \in ThoughtNumbers,
     r \in {<<Undefined, Undefined>>, <<Bool(TRUE), Num(1)>>},
     e \in {Undefined, Bool(FALSE),
            ExperimentalElements(Str("t"), Str("r"), Half(0), Arr(<<Str("l")>>))},
     c \in {Undefined, Null, RecheckStep(Str("proof"), Str("r"), Undefined)}}
  \cup {[BaseThought EXCEPT !.thoughtNumber = Num(n), !.thoughtType = Str("proof"),
                            !.uncertainty = Half(0), !.nextThoughtNeeded = Bool(FALSE),
                            !.isRevision = Bool(FALSE)] :
          n \in ThoughtNumbers}

NextSummary ==
  \/ /\ input = NoInput
     /\ Len(thoughtHistory) < MaxHistory
     /\ \E data \in SummaryInputs : processThought(data)
  \/ ReturnResponse

SpecSummary == Init /\ [][NextSummary]_vars

\* The calls of the specification of extended histories stop once the
\* history holds this many thoughts.
MaxExtended == 3

\* The records of the specification of extended histories: every thought
\* number with every short dependency list, as a first submission and as a
\* revision of every thought number; the last thought number with every
\* list of two dependencies; records whose formatting throws, with and
\* without a dependency; a record the Validator rejects.
ExtensionInputs ==
  {[BaseThought EXCEPT !.thoughtNumber = Num(n), !.dependencies = Arr(d),
                       !.isRevision = r[1], !.revisesThought = r[2]] :
     n \in ThoughtNumbers, d \in ShortLists,
     r \in {<<Undefined, Undefined>>} \cup {<<Bool(TRUE), Num(t)>> : t \in ThoughtNumbers}}
  \cup {[BaseThought EXCEPT !.thoughtNumber = Num(MaxThoughtNumber), !.dependencies = Arr(d)] :
          d \in DependencyLists}
  \cup {[BaseThought EXCEPT !.thoughtNumber = Num(2), !.dependencies = Arr(d),
                            !.assumptions = Arr(<<NoToString>>)] :
          d \in {<<>>, <<Num(1)>>}}
  \cup {[BaseThought EXCEPT !.uncertainty = Num(2)]}

NextExtension ==
  \/ /\ input = NoInput
     /\ Len(thoughtHistory) < MaxExtended
     /\ \E data \in ExtensionInputs : processThought(data)
  \/ ReturnResponse

SpecExtension == Init /\ [][NextExtension]_vars

(***************************************************************************)
(* The older variant of the class (src/src/server.ts): its enumeration has *)
(* abstraction where the newer one has problem_definition, and it knows    *)
(* neither recheckStep, experimentalElements, isRevision nor               *)
(* revisesThought.                                                         *)
(***************************************************************************)
OlderThoughtType == <<"abstraction", "constraints", "model", "proof", "implementation">>

OlderIsThoughtType(v) ==
  v.kind = "string" /\ \E i \in 1..Len(OlderThoughtType) : OlderThoughtType[i] = v.str

\* The message of the Error the older validateThoughtData throws; NoError
\* when it returns.
OlderValidationError(rawInput) ==
  IF ReadError(rawInput) # NoError THEN ReadError(rawInput)
  ELSE LET data == Properties(rawInput) IN
  IF ThoughtInvalid(data)
    THEN "Invalid thought: must be a string, received " \o TypeOf(data.thought)
  ELSE IF ~Truthy(data.thoughtType) \/ ~OlderIsThoughtType(data.thoughtType)
    THEN ErrorWith("Invalid thoughtType: must be one of: "
                     \o JoinStr([i \in 1..Len(OlderThoughtType) |-> Str(OlderThoughtType[i])], ", ")
                     \o ", received ", data.thoughtType, "")
  ELSE IF ThoughtNumberInvalid(data)
    THEN "Invalid thoughtNumber: must be a number, received " \o TypeOf(data.thoughtNumber)
  ELSE IF TotalThoughtsInvalid(data)
    THEN "Invalid totalThoughts: must be a number, received " \o TypeOf(data.totalThoughts)
  ELSE IF UncertaintyInvalid(data)
    THEN ErrorWith("Invalid uncertainty: must be a number between 0 and 1, received ",
                   data.uncertainty, "")
  ELSE IF DependenciesInvalid(data)
    THEN "Invalid dependencies: must be an array, received " \o TypeOf(data.dependencies)
  ELSE IF AssumptionsInvalid(data)
    THEN "Invalid assumptions: must be an array, received " \o TypeOf(data.assumptions)
  ELSE IF NextThoughtNeededInvalid(data)
    THEN "Invalid nextThoughtNeeded: must be a boolean, received "
           \o TypeOf(data.nextThoughtNeeded)
  ELSE IF ProofElementsError(data) # NoError THEN ProofElementsError(data)
  ELSE ImplementationNotesError(data)

\* The object the older validateThoughtData returns.
OlderValidateThoughtData(rawInput) ==
  LET data == Properties(rawInput) IN
  [thought |-> data.thought,
   thoughtType |-> data.thoughtType,
   thoughtNumber |-> data.thoughtNumber,
   totalThoughts |-> data.totalThoughts,
   uncertainty |-> data.uncertainty,
   dependencies |-> data.dependencies,
   assumptions |-> data.assumptions,
   nextThoughtNeeded |-> data.nextThoughtNeeded,
   proofElements |-> data.proofElements,
   implementationNotes |-> data.implementationNotes]

\* The message of the TypeError the older formatThought throws; NoError when
\* it returns.
OlderFormatThought(thoughtData) ==
  IF \/ JoinThrows(thoughtData.dependencies)
     \/ JoinThrows(thoughtData.assumptions)
     \/ Truthy(thoughtData.implementationNotes)
          /\ JoinThrows(Prop(thoughtData.implementationNotes, "practicalConstraints"))
    THEN "Cannot convert object to primitive value"
    ELSE NoError

\* The older processThought without its dependency check.
OlderAdmissionError_NoDependencyCheck(data, history) == OlderValidationError(data)

\* The message of the first Error the older processThought throws before the
\* push: the Validator's, or that of the dependency check.
OlderAdmissionError(data, history) ==
  LET invalid == OlderValidationError(data) IN
  IF invalid # NoError THEN invalid
  ELSE LET validatedInput == CorrectTotal(OlderValidateThoughtData(data))
       IN DependencyError(validatedInput.dependencies.elems, validatedInput.thoughtNumber, history)

OlderHistoryAfter(data, history) ==
  IF OlderAdmissionError(data, history) # NoError THEN history
  ELSE Append(history, CorrectTotal(OlderValidateThoughtData(data)))

OlderCaughtError(data, history) ==
  LET admission == OlderAdmissionError(data, history) IN
  IF admission # NoError THEN admission
  ELSE OlderFormatThought(CorrectTotal(OlderValidateThoughtData(data)))

\* The object the try block of the older processThought returns.
OlderSummary(validatedInput, history) ==
  [isError |-> FALSE,
   content |->
     [thoughtNumber |-> validatedInput.thoughtNumber,
      totalThoughts |-> validatedInput.totalThoughts,
      nextThoughtNeeded |-> validatedInput.nextThoughtNeeded,
      thoughtType |-> validatedInput.thoughtType,
      uncertainty |-> validatedInput.uncertainty,
      thoughtHistoryLength |-> Len(history)]]

\* The message of the TypeError that leaves the older processThought: the one
\* JSON.stringify(input) throws in its catch block; NoError when the call
\* returns.
OlderThrown(data, history) ==
  IF OlderCaughtError(data, history) # NoError /\ StringifyThrows(data)
    THEN "Do not know how to serialize a BigInt"
    ELSE NoError

\* What the older processThought returns on data when this.thoughtHistory is
\* history; NoResponse when it throws.
OlderResponse(data, history) ==
  LET caught == OlderCaughtError(data, history) IN
  IF OlderThrown(data, history) # NoError THEN NoResponse
  ELSE IF caught # NoError
    THEN Rejection(caught, data, OlderHistoryAfter(data, history))
    ELSE OlderSummary(CorrectTotal(OlderValidateThoughtData(data)),
                      OlderHistoryAfter(data, history))

\* The fields both variants know.
CommonFields ==
  {"thought", "thoughtType", "thoughtNumber", "totalThoughts", "uncertainty",
   "dependencies", "assumptions", "nextThoughtNeeded", "proofElements",
   "implementationNotes"}

\* The records submitted to both variants: the stages both enumerations
\* have, every thought number with every short dependency list, and
\* BaseThought with one field both variants know replaced, and with a BigInt,
\* which JSON.stringify does not serialize, as thought and as dependency; no
\* record carries recheckStep, experimentalElements, isRevision or
\* revisesThought.
CommonInputs ==
  {r \in {[BaseThought EXCEPT !.thoughtNumber = Num(n), !.dependencies = Arr(d)] :
            n \in ThoughtNumbers, d \in ShortLists}
         \cup {[BaseThought EXCEPT !.thoughtType = Str(ThoughtType[t])] : t \in 1..Len(ThoughtType)}
         \cup UNION {{[BaseThought EXCEPT ![f] = v] : v \in FieldValues[f]} : f \in CommonFields}
         \cup {[BaseThought EXCEPT !.thought = BigInt(1)],
               [BaseThought EXCEPT !.dependencies = Arr(<<BigInt(1)>>)]} :
     IsThoughtType(r.thoughtType) /\ OlderIsThoughtType(r.thoughtType)}

\* The same record is submitted to a tracker of each variant.
processThoughtInBoth(data) ==
  /\ input = NoInput
  /\ callee' = 1
  /\ thoughtHistory' = HistoryAfter(data, thoughtHistory)
  /\ response' = Response(data, thoughtHistory)
  /\ thrown' = Thrown(data, thoughtHistory)
  /\ input' = data
  /\ before' = thoughtHistory
  /\ older' = [thoughtHistory |-> OlderHistoryAfter(data, older.thoughtHistory),
               response |-> OlderResponse(data, older.thoughtHistory),
               thrown |-> OlderThrown(data, older.thoughtHistory)]
  /\ UNCHANGED <<otherHistory, calls, accepted, lastAccepted>>

NextVariants ==
  \/ /\ input = NoInput
     /\ Len(thoughtHistory) < MaxHistory
     /\ Len(older.thoughtHistory) < MaxHistory
     /\ \E data \in CommonInputs : processThoughtInBoth(data)
  \/ ReturnResponse

SpecVariants == Init /\ [][NextVariants]_vars

(***************************************************************************)
(* Pending tool calls.  Requests arrive while others are pending, and the  *)
(* handler of each calls processThought on the shared tracker.  The call   *)
(* is taken in three steps: the checks up to the push, the push, and the   *)
(* formatting and the return; a throw runs the catch block in the step     *)
(* that threw.  processThought has no await: once a call has begun, the    *)
(* event loop runs no other handler until it has returned.                 *)
(***************************************************************************)
\* The records the pending calls carry: every thought number with no
\* dependency and with a dependency on thought 1, a record whose formatting
\* throws and a record the Validator rejects.
PendingInputs ==
  {[BaseThought EXCEPT !.thoughtNumber = Num(n), !.dependencies = Arr(d)] :
     n \in ThoughtNumbers, d \in {<<>>, <<Num(1)>>}}
  \cup {[BaseThought EXCEPT !.assumptions = Arr(<<NoToString>>)],
        [BaseThought EXCEPT !.thought = Undefined]}

\* The calls inside processThought.
Running == {c \in Calls : calls[c].pc \in {"checked", "pushed"}}

\* A scheduler that switches between handlers at any statement.
MayRun_Preemptive(c) == TRUE

\* The event loop runs a handler to completion: a call takes a step only if
\* no other call is inside processThought.
MayRun(c) == Running \subseteq {c}

\* A request arrives.
CallArrives(c, data) ==
  /\ calls[c].pc = "none"
  /\ calls' = [calls EXCEPT ![c] = [pc |-> "pending", data |-> data, result |-> NoResponse]]
  /\ UNCHANGED <<thoughtHistory, otherHistory, callee, input, response, thrown, before,
                 accepted, lastAccepted, older>>

\* The handler calls processThought, which validates the record, corrects the
\* total and checks the dependencies and the revision target.
RunChecks(c) ==
  /\ calls[c].pc = "pending"
  /\ MayRun(c)
  /\ LET data == calls[c].data
         admission == AdmissionError(data, thoughtHistory)
     IN calls' = [calls EXCEPT ![c] =
          IF admission # NoError
            THEN [pc |-> "done", data |-> data,
                  result |-> Rejection(admission, data, thoughtHistory)]
            ELSE [pc |-> "checked", data |-> data, result |-> NoResponse]]
  /\ UNCHANGED <<thoughtHistory, otherHistory, callee, input, response, thrown, before,
                 accepted, lastAccepted, older>>

\* this.thoughtHistory.push(validatedInput)
PushThought(c) ==
  /\ calls[c].pc = "checked"
  /\ MayRun(c)
  /\ thoughtHistory' = Append(thoughtHistory, CorrectTotal(validateThoughtData(calls[c].data)))
  /\ calls' = [calls EXCEPT ![c].pc = "pushed"]
  /\ UNCHANGED <<otherHistory, callee, input, response, thrown, before, accepted,
                 lastAccepted, older>>

\* formatThought, and the Summary with the length of the history as it is
\* now; the rejection if formatThought throws.
FormatAndReturn(c) ==
  /\ calls[c].pc = "pushed"
  /\ MayRun(c)
  /\ LET data == calls[c].data
         validatedInput == CorrectTotal(validateThoughtData(data))
         format == formatThought(validatedInput)
     IN calls' = [calls EXCEPT ![c] =
          [pc |-> "done", data |-> data,
           result |-> IF format # NoError
                        THEN Rejection(format, data, thoughtHistory)
                        ELSE Summary(validatedInput, thoughtHistory)]]
  /\ UNCHANGED <<thoughtHistory, otherHistory, callee, input, response, thrown, before,
                 accepted, lastAccepted, older>>

NextPending ==
  \/ \E c \in Calls : \E data \in PendingInputs : CallArrives(c, data)
  \/ \E c \in Calls : RunChecks(c)
  \/ \E c \in Calls : PushThought(c)
  \/ \E c \in Calls : FormatAndReturn(c)

SpecPending == Init /\ [][NextPending]_vars

\* The last call returned a Summary / a rejection.
Succeeded == input # NoInput /\ thrown = NoError /\ ~response.isError

Rejected == input # NoInput /\ thrown = NoError /\ response.isError

(***************************************************************************)
(* Properties.  They are stated on the state a call leaves: input is the   *)
(* record submitted, before the history the call started from,             *)
(* thoughtHistory the history it left and response what it returned.       *)
(***************************************************************************)
\* The record passes the Validator.
PassesValidator == input # NoInput /\ ValidationError(input) = NoError

\* The number n is the thoughtNumber of an entry of history h.
Numbered(h, n) == \E i \in 1..Len(h) : h[i].thoughtNumber = n

\* The dependencies submitted, and the thought number submitted.
Deps == input.dependencies.elems

ThoughtNo == input.thoughtNumber

\* The dependency at index k is a number that is a forward or self
\* dependency / names no entry, as every value that is not a number does.
Forward(k) == Deps[k].kind = "number" /\ Twice(Deps[k]) >= Twice(ThoughtNo)

Missing(k) == ~Numbered(before, Deps[k])

\* The dependencies are numbers, as the declaration of the field has them.
NumbersOnly == \A k \in 1..Len(Deps) : Deps[k].kind = "number"

\* The first dependency, in list order, that is forward or missing.
FirstBad == CHOOSE k \in 1..Len(Deps) :
              /\ Forward(k) \/ Missing(k)
              /\ \A j \in 1..(k - 1) : ~Forward(j) /\ ~Missing(j)

\* The two dependency errors, for the dependency n.
FutureMessage(n) == "Invalid dependency: cannot depend on future thought " \o StringOf(n)

MissingMessage(n) == "Invalid dependency: thought " \o StringOf(n) \o " does not exist"

\* The entry a call appends for the record submitted: the record, with the
\* total raised to the thought number when that exceeds it.
Stored ==
  [input EXCEPT !.totalThoughts =
     IF Twice(input.thoughtNumber) > Twice(input.totalThoughts)
       THEN input.thoughtNumber ELSE input.totalThoughts]

\* C1: a call that returns a rejection leaves the history as it found it.
C1_RejectionLeavesHistory == Rejected => thoughtHistory = before

\* C2: the history grows by exactly one entry if and only if the call returns
\* a Summary; otherwise it is unchanged.
C2_AllOrNothing ==
  input # NoInput =>
    /\ Len(thoughtHistory) = Len(before) + 1 <=> Succeeded
    /\ Len(thoughtHistory) # Len(before) + 1 => thoughtHistory = before

\* C3: every dependency and every revision target of a history entry is below
\* the entry's thoughtNumber and is the thoughtNumber of an earlier entry.
C3_ReferentialIntegrity ==
  \A i \in 1..Len(thoughtHistory) :
    LET e == thoughtHistory[i]
        earlier == SubSeq(thoughtHistory, 1, i - 1)
    IN /\ \A k \in 1..Len(e.dependencies.elems) :
            /\ Twice(e.dependencies.elems[k]) < Twice(e.thoughtNumber)
            /\ Numbered(earlier, e.dependencies.elems[k])
       /\ (e.isRevision = Bool(TRUE) /\ e.revisesThought # Undefined) =>
            /\ Twice(e.revisesThought) < Twice(e.thoughtNumber)
            /\ Numbered(earlier, e.revisesThought)

\* C3 witness: a second entry that depends on the first and revises it.
C3_Witness ==
  /\ Len(thoughtHistory) = 2
  /\ thoughtHistory[2].dependencies.elems = <<Num(1)>>
  /\ thoughtHistory[2].revisesThought = Num(1)

\* C4: a call keeps every entry in place, a successful call adds the accepted
\* Thought as the last entry, and the Summary's thoughtHistoryLength is the
\* number of submissions accepted so far.
C4_AppendOnlyAndCounted ==
  /\ input # NoInput =>
       /\ Len(thoughtHistory) >= Len(before)
       /\ SubSeq(thoughtHistory, 1, Len(before)) = before
  /\ Succeeded =>
       /\ thoughtHistory = Append(before, Stored)
       /\ response.content.thoughtHistoryLength = accepted

\* C5 as stated: a record that passes the Validator and has any dependency
\* >= thoughtNumber fails with the future-dependency error, history unchanged.
C5_Original ==
  (PassesValidator /\ \E k \in 1..Len(Deps) : Forward(k)) =>
    /\ Rejected
    /\ \E k \in 1..Len(Deps) :
         Forward(k) /\ response.content.error = FutureMessage(Deps[k])
    /\ thoughtHistory = before

\* C5 amended: such a record is rejected and the history is unchanged,
\* whatever the other elements are; when the dependencies are numbers, the
\* error is the one of the first dependency, in list order, that is forward
\* or missing: the future-dependency error when that one is >= thoughtNumber,
\* the nonexistent-dependency error when it is below.
C5_ForwardDependencyRejected ==
  (PassesValidator /\ \E k \in 1..Len(Deps) : Forward(k)) =>
    /\ Rejected
    /\ NumbersOnly =>
         response.content.error =
           IF Forward(FirstBad) THEN FutureMessage(Deps[FirstBad])
           ELSE MissingMessage(Deps[FirstBad])
    /\ thoughtHistory = before

\* C5 witness: a forward dependency listed after one that exists.
C5_Witness ==
  /\ PassesValidator
  /\ Len(Deps) = 2 /\ ~Forward(1) /\ ~Missing(1) /\ Forward(2)
  /\ Rejected

\* C6 as stated: a record that passes the Validator and has a dependency that
\* names no entry fails with the nonexistent-dependency error.
C6_Original ==
  (PassesValidator /\ \E k \in 1..Len(Deps) : Missing(k)) =>
    /\ Rejected
    /\ \E k \in 1..Len(Deps) :
         Missing(k) /\ response.content.error = MissingMessage(Deps[k])

\* C6 amended: such a record is rejected; when the dependencies are numbers,
\* it fails with the nonexistent-dependency error when the first dependency,
\* in list order, that is forward or missing is below thoughtNumber, and with
\* the future-dependency error otherwise.
C6_MissingDependencyRejected ==
  (PassesValidator /\ \E k \in 1..Len(Deps) : Missing(k)) =>
    /\ Rejected
    /\ NumbersOnly =>
         /\ ~Forward(FirstBad) => response.content.error = MissingMessage(Deps[FirstBad])
         /\ Forward(FirstBad) => response.content.error = FutureMessage(Deps[FirstBad])

\* C6 witness: a dependency below thoughtNumber that names no entry, listed
\* after one that exists.
C6_Witness ==
  /\ PassesValidator
  /\ Len(Deps) = 2 /\ ~Forward(1) /\ ~Missing(1) /\ ~Forward(2) /\ Missing(2)
  /\ Rejected

\* A record that passes the Validator with isRevision = true and a
\* revisesThought.
RevisionCase ==
  PassesValidator /\ input.isRevision = Bool(TRUE) /\ input.revisesThought # Undefined

\* Its target is below its thoughtNumber and names an entry.
TargetResolves ==
  /\ Twice(input.revisesThought) < Twice(ThoughtNo)
  /\ Numbered(before, input.revisesThought)

RevisionMessages ==
  {"Invalid revision: cannot revise future thought " \o NumStr(input.revisesThought),
   "Invalid revision: thought " \o NumStr(input.revisesThought) \o " does not exist"}

\* No dependency of the record is forward or names no entry.
PassesDependencyCheck == \A k \in 1..Len(Deps) : ~Forward(k) /\ ~Missing(k)

\* C7: a record that passes the Validator with isRevision true and a
\* revisesThought succeeds if and only if its target is below its
\* thoughtNumber and names an entry of the history; in every other case it is
\* rejected with an 'Invalid revision' error and nothing is appended.  The
\* dependency check runs before the revision check (lines 214-221, then
\* 224-231), so the property is stated of the records that pass it, which is
\* all the claim can mean of a record whose target resolves and whose
\* dependency does not; what holds of them holds of every record the claim
\* speaks of.
C7_RevisionTarget ==
  (RevisionCase /\ PassesDependencyCheck) =>
    /\ Succeeded <=> TargetResolves
    /\ ~TargetResolves =>
         /\ Rejected
         /\ response.content.error \in RevisionMessages
         /\ thoughtHistory = before

\* C8: on acceptance the Summary and the stored entry carry the same
\* totalThoughts: thoughtNumber when it exceeded the submitted total, the
\* submitted total otherwise; and an excess does not reject a record.
C8_TotalCorrection ==
  /\ Succeeded =>
       /\ response.content.totalThoughts = thoughtHistory[Len(thoughtHistory)].totalThoughts
       /\ response.content.totalThoughts =
            IF Twice(ThoughtNo) > Twice(input.totalThoughts)
              THEN input.thoughtNumber ELSE input.totalThoughts
  /\ (/\ PassesValidator
      /\ Twice(ThoughtNo) > Twice(input.totalThoughts)
      /\ Deps = <<>> /\ input.revisesThought = Undefined
      /\ input.assumptions.elems = <<>>) => Succeeded

\* C8 witness: a record accepted with thoughtNumber above its total.
C8_Witness == Succeeded /\ Twice(ThoughtNo) > Twice(input.totalThoughts)

\* A list whose elements are all of one kind.
ListOf(arr, kind) == \A i \in 1..Len(arr.elems) : arr.elems[i].kind = kind

\* The lists of the record hold what ShannonThoughtData declares: numbers in
\* dependencies, strings in the others.
ListsAsDeclared ==
  /\ ListOf(input.dependencies, "number")
  /\ ListOf(input.assumptions, "string")
  /\ Truthy(input.experimentalElements) =>
       ListOf(Prop(input.experimentalElements, "limitations"), "string")
  /\ Truthy(input.implementationNotes) =>
       ListOf(Prop(input.implementationNotes, "practicalConstraints"), "string")

\* A valid record: it passes the Validator and its lists are as declared.
ValidRecord == PassesValidator /\ ListsAsDeclared

\* C9 as stated: on an empty history every valid record with no dependencies
\* is accepted and the Summary reports thoughtHistoryLength = 1.
C9_Original ==
  (ValidRecord /\ before = <<>> /\ Deps = <<>>) =>
    Succeeded /\ response.content.thoughtHistoryLength = 1

\* C9 amended: on an empty history every valid record with no dependencies
\* and no revisesThought is accepted and the Summary reports
\* thoughtHistoryLength = 1.
C9_FirstSubmission ==
  (ValidRecord /\ before = <<>> /\ Deps = <<>> /\ input.revisesThought = Undefined) =>
    Succeeded /\ response.content.thoughtHistoryLength = 1

\* C9 witness: a first record with optional fields, accepted.
C9_Witness ==
  /\ ValidRecord /\ before = <<>> /\ Deps = <<>>
  /\ Truthy(input.experimentalElements) /\ input.isRevision = Bool(TRUE)
  /\ Succeeded

\* A number outside [0, 1].
OutOfRange(v) == v.kind = "number" /\ (Twice(v) < 0 \/ Twice(v) > 2)

UncertaintyMessage ==
  "Invalid uncertainty: must be a number between 0 and 1, received "
    \o NumStr(input.uncertainty)

\* The record is valid apart from its uncertainty and its
\* experimentalElements.confidence: the other checks of the Validator pass,
\* its lists are as declared, and its dependencies and revision target
\* resolve.
ValidApartFromConfidence ==
  /\ input # NoInput
  /\ ~ThoughtInvalid(input) /\ ~ThoughtTypeInvalid(input)
  /\ ~ThoughtNumberInvalid(input) /\ ~TotalThoughtsInvalid(input)
  /\ ~DependenciesInvalid(input) /\ ~AssumptionsInvalid(input)
  /\ ~NextThoughtNeededInvalid(input)
  /\ RecheckStepError(input) = NoError /\ ProofElementsError(input) = NoError
  /\ Truthy(input.experimentalElements) =>
       /\ Prop(input.experimentalElements, "testDescription").kind = "string"
       /\ Prop(input.experimentalElements, "testDescription") # Str("")
       /\ Prop(input.experimentalElements, "results").kind = "string"
       /\ Prop(input.experimentalElements, "results") # Str("")
       /\ Prop(input.experimentalElements, "limitations").kind = "array"
  /\ ImplementationNotesError(input) = NoError /\ RevisionFieldsError(input) = NoError
  /\ ListsAsDeclared
  /\ \A k \in 1..Len(Deps) : ~Forward(k) /\ ~Missing(k)
  /\ input.revisesThought # Undefined => TargetResolves

\* The four checks that precede the one of uncertainty pass.
EarlierFieldsValid ==
  /\ ~ThoughtInvalid(input) /\ ~ThoughtTypeInvalid(input)
  /\ ~ThoughtNumberInvalid(input) /\ ~TotalThoughtsInvalid(input)

\* uncertainty and, when present, experimentalElements.confidence are 0 or 1.
AtBoundary ==
  /\ input.uncertainty \in {Num(0), Num(1)}
  /\ Truthy(input.experimentalElements) =>
       Prop(input.experimentalElements, "confidence") \in {Num(0), Num(1)}

\* experimentalElements.confidence is outside [0, 1].
ConfidenceOutOfRange ==
  /\ Truthy(input.experimentalElements)
  /\ OutOfRange(Prop(input.experimentalElements, "confidence"))

\* C10 as stated: uncertainty outside [0, 1] is rejected with the error
\* naming uncertainty; experimentalElements.confidence outside [0, 1] is
\* rejected; the history keeps its length; an otherwise valid record with the
\* values 0 or 1 is accepted.
C10_Original ==
  /\ (input # NoInput /\ OutOfRange(input.uncertainty)) =>
       /\ Rejected
       /\ response.content.error = UncertaintyMessage
       /\ Len(thoughtHistory) = Len(before)
  /\ (input # NoInput /\ ConfidenceOutOfRange) =>
       Rejected /\ Len(thoughtHistory) = Len(before)
  /\ (ValidApartFromConfidence /\ AtBoundary) => Succeeded

\* C10 amended: as stated, but the rejection of an uncertainty outside [0, 1]
\* names uncertainty when thought, thoughtType, thoughtNumber and
\* totalThoughts pass their checks, which come first.
C10_ConfidenceBounds ==
  /\ (input # NoInput /\ OutOfRange(input.uncertainty)) =>
       /\ Rejected
       /\ EarlierFieldsValid => response.content.error = UncertaintyMessage
       /\ Len(thoughtHistory) = Len(before)
  /\ (input # NoInput /\ ConfidenceOutOfRange) =>
       Rejected /\ Len(thoughtHistory) = Len(before)
  /\ (ValidApartFromConfidence /\ AtBoundary) => Succeeded

\* C10 witness: uncertainty 1 passes its check and a confidence of 2 rejects
\* the record.
C10_Witness ==
  /\ input # NoInput
  /\ input.uncertainty = Num(1)
  /\ ConfidenceOutOfRange
  /\ response.content.error =
       "Invalid experimentalElements: confidence must be a number between 0 and 1"

(***************************************************************************)
(* The Validator's order of checks                                         *)
(***************************************************************************)
\* The input is an object (the record of its properties).
IsRecord == input # NoInput /\ "kind" \notin DOMAIN input

\* The fields of the checks, in the order of the checks.
CheckOrder ==
  <<{"thought"}, {"thoughtType"}, {"thoughtNumber"}, {"totalThoughts"}, {"uncertainty"},
    {"dependencies"}, {"assumptions"}, {"nextThoughtNeeded"}, {"recheckStep"},
    {"proofElements"}, {"experimentalElements"}, {"implementationNotes"},
    {"isRevision", "revisesThought"}>>

\* Which checks the record violates, each taken on its own.
CheckViolated(data) ==
  <<ThoughtInvalid(data), ThoughtTypeInvalid(data), ThoughtNumberInvalid(data),
    TotalThoughtsInvalid(data), UncertaintyInvalid(data), DependenciesInvalid(data),
    AssumptionsInvalid(data), NextThoughtNeededInvalid(data),
    RecheckStepError(data) # NoError, ProofElementsError(data) # NoError,
    ExperimentalElementsError(data) # NoError, ImplementationNotesError(data) # NoError,
    RevisionFieldsError(data) # NoError>>

ViolatedChecks ==
  LET violated == CheckViolated(input) IN {i \in 1..Len(CheckOrder) : violated[i]}

FirstViolated == LET v == ViolatedChecks IN CHOOSE i \in v : \A j \in v : i <= j

\* The message begins "Invalid <field>:" for one of the fields.
NamesField(message, fields) ==
  \E f \in fields :
    LET prefix == "Invalid " \o f \o ":"
    IN Len(message) >= Len(prefix) /\ SubSeq(message, 1, Len(prefix)) = prefix

\* The record with the fields of every check after the first violated one
\* put right.
LaterChecksRepaired(first) ==
  [f \in DOMAIN input |->
     IF \E j \in (first + 1)..Len(CheckOrder) : f \in CheckOrder[j]
       THEN BaseThought[f] ELSE input[f]]

\* C11: a record that violates checks of the Validator is rejected with a
\* message that names the field of the first violated check, in the order
\* thought, thoughtType, thoughtNumber, totalThoughts, uncertainty,
\* dependencies, assumptions, nextThoughtNeeded, recheckStep, proofElements,
\* experimentalElements, implementationNotes, isRevision/revisesThought; the
\* message names no field of another check and is the one the record gets
\* with its later violations put right.
C11_FailFastOrder ==
  (IsRecord /\ ViolatedChecks # {}) =>
    LET first == FirstViolated IN
    /\ Rejected
    /\ NamesField(response.content.error, CheckOrder[first])
    /\ \A i \in 1..Len(CheckOrder) :
         i # first => ~NamesField(response.content.error, CheckOrder[i])
    /\ response.content.error = Response(LaterChecksRepaired(first), before).content.error
    /\ thoughtHistory = before



(***************************************************************************)
(* The shape of a revision                                                 *)
(***************************************************************************)
\* A number that is an integer >= 1.
PositiveInteger(v) == v.kind = "number" /\ "half" \notin DOMAIN v /\ v.num >= 1

\* The call returned the rejection of the Validator.
RejectedByValidator ==
  /\ Rejected
  /\ ValidationError(input) # NoError
  /\ response.content.error = ValidationError(input)

\* C12: a record with a revisesThought is rejected by the Validator unless
\* revisesThought is a positive integer and isRevision is true; so is a record
\* whose isRevision is provided and is not a boolean.
C12_RevisionShape ==
  IsRecord =>
    /\ (/\ input.revisesThought # Undefined
        /\ ~(PositiveInteger(input.revisesThought) /\ input.isRevision = Bool(TRUE)))
         => RejectedByValidator
    /\ (input.isRevision # Undefined /\ input.isRevision.kind # "boolean")
         => RejectedByValidator

(***************************************************************************)
(* Errors as data                                                          *)
(***************************************************************************)
\* C13: for every input, an object or not, processThought returns: no
\* exception leaves it, and what it returns is a Summary without isError or a
\* rejection with isError = true, status 'failed' and an error message.
C13_ErrorsAsData ==
  input # NoInput =>
    /\ thrown = NoError
    /\ IF response.isError
         THEN /\ response.content.status = "failed"
              /\ response.content.error \notin {NoError, ""}
         ELSE "thoughtHistoryLength" \in DOMAIN response.content

(***************************************************************************)
(* What a rejection reports                                                *)
(***************************************************************************)
\* The input as a JSON document: an object without the properties it does not
\* have, any other value as it is.
Submitted ==
  IF "kind" \in DOMAIN input THEN input
  ELSE [f \in {g \in DOMAIN input : input[g] # Undefined} |-> input[f]]

\* C14: a rejection reports the current length of the history, the
\* thoughtNumber of the most recently accepted Thought (null when the history
\* is empty), and the input as submitted, with the totalThoughts submitted.
C14_RejectionReportsProgress ==
  Rejected =>
    LET details == response.content.details IN
    /\ details.thoughtHistoryLength = Len(thoughtHistory)
    /\ details.lastValidThought = lastAccepted
    /\ thoughtHistory = <<>> => details.lastValidThought = Null
    /\ "receivedInput" \in DOMAIN details
    /\ details.receivedInput = Submitted

(***************************************************************************)
(* No terminal state                                                       *)
(***************************************************************************)
\* The record passes the Validator, each of its dependencies is below its
\* thoughtNumber and names an entry, and so does its revision target.
PassesAllChecks ==
  /\ PassesValidator
  /\ \A k \in 1..Len(Deps) : ~Forward(k) /\ ~Missing(k)
  /\ RevisionCase => TargetResolves

\* C15: in every reachable state, whatever was accepted or rejected before
\* and whatever nextThoughtNeeded said, a record that passes the Validator and
\* the dependency and revision checks is accepted; the nextThoughtNeeded of
\* the record does not change the outcome.
C15_NoTerminalState ==
  /\ PassesAllChecks => Succeeded
  /\ PassesValidator =>
       \A b \in BOOLEAN :
         (CaughtError([input EXCEPT !.nextThoughtNeeded = Bool(b)], before) # NoError)
           = response.isError

(***************************************************************************)
(* Stages                                                                  *)
(***************************************************************************)
\* The record submitted, with another stage.
WithStage(t) == [input EXCEPT !.thoughtType = Str(ThoughtType[t])]

\* The history the call started from, with every entry of another stage.
BeforeWithStage(t) ==
  [i \in 1..Len(before) |-> [before[i] EXCEPT !.thoughtType = Str(ThoughtType[t])]]

\* C16: whether a record is accepted does not depend on its thoughtType or on
\* the thoughtTypes of the entries of the history: with any of the five stages
\* in the record, and with any in the history, the outcome is the same.
C16_StageOrderNotEnforced ==
  (IsRecord /\ IsThoughtType(input.thoughtType)) =>
    \A t \in 1..Len(ThoughtType) :
      /\ (CaughtError(WithStage(t), before) # NoError) = response.isError
      /\ (CaughtError(input, BeforeWithStage(t)) # NoError) = response.isError

\* C16 witness: a problem_definition accepted after a proof.
C16_Witness ==
  /\ IsRecord
  /\ Len(before) = 1 /\ before[1].thoughtType = Str("proof")
  /\ input.thoughtType = Str("problem_definition")
  /\ Succeeded

(***************************************************************************)
(* Optional fields and stages                                              *)
(***************************************************************************)
\* The messages of the checks of the four optional structured fields.
OptionalErrors(data) ==
  <<RecheckStepError(data), ProofElementsError(data),
    ExperimentalElementsError(data), ImplementationNotesError(data)>>

\* C17: the checks of recheckStep, proofElements, experimentalElements and
\* implementationNotes give the same verdict whatever thoughtType is, so an
\* incomplete one is rejected and a complete one accepted on a Thought of any
\* stage; and a valid proof or implementation Thought with no dependencies
\* and no revision is accepted without proofElements and implementationNotes.
C17_OptionalFieldsAnyStage ==
  IsRecord =>
    /\ \A t \in 1..Len(ThoughtType) :
         /\ OptionalErrors(WithStage(t)) = OptionalErrors(input)
         /\ IsThoughtType(input.thoughtType) =>
              (CaughtError(WithStage(t), before) # NoError) = response.isError
    /\ (\E i \in 1..4 : OptionalErrors(input)[i] # NoError) => Rejected
    /\ (/\ ValidRecord
        /\ input.thoughtType \in {Str("proof"), Str("implementation")}
        /\ input.proofElements = Undefined /\ input.implementationNotes = Undefined
        /\ Deps = <<>> /\ input.revisesThought = Undefined) => Succeeded

\* C17 witness: an implementation Thought with complete proofElements and no
\* implementationNotes, accepted.
C17_Witness ==
  /\ IsRecord
  /\ input.thoughtType = Str("implementation")
  /\ Truthy(input.proofElements) /\ input.implementationNotes = Undefined
  /\ Succeeded

(***************************************************************************)
(* The numbers of the history                                              *)
(***************************************************************************)
\* C18: every entry of the history has a thoughtNumber that is a positive
\* integer.
C18_PositiveThoughtNumbers ==
  \A i \in 1..Len(thoughtHistory) : PositiveInteger(thoughtHistory[i].thoughtNumber)

\* C19: every entry of the history has a totalThoughts that is a positive
\* integer, and so has the record it was submitted as.
C19_PositiveTotals ==
  /\ \A i \in 1..Len(thoughtHistory) : PositiveInteger(thoughtHistory[i].totalThoughts)
  /\ Succeeded => PositiveInteger(input.totalThoughts)

\* C20: no two entries of the history have the same thoughtNumber.
C20_UniqueThoughtNumbers ==
  \A i, j \in 1..Len(thoughtHistory) :
    i # j => thoughtHistory[i].thoughtNumber # thoughtHistory[j].thoughtNumber

\* C21: a call on one tracker leaves the history of the other tracker as it
\* was, and leaves as it was whether the other tracker would accept the
\* record just submitted, the error it would reject it with, and the history
\* it would hold after.
C21_TrackersIndependent ==
  [][\A other \in Trackers :
       (callee = 0 /\ callee' = 3 - other) =>
       /\ HistoryOf(other)' = HistoryOf(other)
       /\ \A data \in TwoTrackerInputs :
            data = input' =>
              /\ CaughtError(data, HistoryOf(other))' = CaughtError(data, HistoryOf(other))
              /\ HistoryAfter(data, HistoryOf(other))' = HistoryAfter(data, HistoryOf(other))]_vars

\* C21 witness: thought 2, which depends on thought 1, is rejected by the
\* first tracker, whose history is empty, after the second tracker accepted
\* thought 1.
C21_Witness ==
  /\ callee = 1
  /\ Numbered(otherHistory, Num(1))
  /\ thoughtHistory = <<>>
  /\ Deps = <<Num(1)>>
  /\ Rejected
  /\ response.content.error = MissingMessage(Num(1))


\* The calls that have returned.
Returned == {c \in Calls : calls[c].pc = "done"}

\* The sequences in which the calls of a set can be made one after another.
Orders(set) ==
  {order \in [1..Cardinality(set) -> set] :
     \A i, j \in 1..Cardinality(set) : order[i] = order[j] => i = j}

\* The history after the first k calls of order, each run to its return
\* before the next begins, on a new tracker.
RECURSIVE HistoryAlong(_, _)
HistoryAlong(order, k) ==
  IF k = 0 THEN <<>>
  ELSE HistoryAfter(calls[order[k]].data, HistoryAlong(order, k - 1))

\* The calls that returned did so as in the sequential execution order.
SequentialExecution(order) ==
  /\ HistoryAlong(order, Len(order)) = thoughtHistory
  /\ \A k \in 1..Len(order) :
       calls[order[k]].result =
         Response(calls[order[k]].data, HistoryAlong(order, k - 1))

\* C22: at most one call is inside processThought, and whenever none is, the
\* history and the results of the calls that returned are those of running
\* these calls one after another in some order.
C22_OneAtATime ==
  /\ Cardinality(Running) <= 1
  /\ Running = {} => \E order \in Orders(Returned) : SequentialExecution(order)

\* C22 witness: two calls were pending together and both returned a Summary.
C22_Witness ==
  /\ Returned = Calls
  /\ \A c \in Calls : ~calls[c].result.isError
  /\ {calls[c].result.content.thoughtHistoryLength : c \in Calls} = {1, 2}


\* The record submitted carries a well-formed recheckStep.
HasRecheckStep ==
  /\ IsRecord
  /\ TypeOf(input.recheckStep) = "object"
  /\ input.recheckStep # Null
  /\ IsThoughtType(Prop(input.recheckStep, "stepToRecheck"))
  /\ RecheckStepError(input) = NoError

\* The record submitted, without its recheckStep.
WithoutRecheckStep == [input EXCEPT !.recheckStep = Undefined]

\* The history holds a Thought of the stage to recheck.
StageToRecheckInHistory ==
  \E i \in 1..Len(before) :
    before[i].thoughtType = Prop(input.recheckStep, "stepToRecheck")

\* C23: a record with a well-formed recheckStep is accepted exactly if the
\* same record without recheckStep would be, on the same history, and is
\* rejected with the same error.
C23_RecheckAddsNoCheck ==
  HasRecheckStep =>
    LET plain == CaughtError(WithoutRecheckStep, before) IN
    /\ Succeeded = (plain = NoError)
    /\ Rejected = (plain # NoError)
    /\ Rejected => response.content.error = plain
    /\ Len(thoughtHistory) = Len(HistoryAfter(WithoutRecheckStep, before))

\* C23 witness: a request to recheck the proof stage is accepted on an empty
\* history.
C23_Witness ==
  /\ HasRecheckStep
  /\ before = <<>>
  /\ Succeeded
  /\ response.content.hasRecheckStep


\* A field was supplied: the record has a value for it.
Supplied(v) == v # Undefined

\* A structured field was supplied as an object.
SuppliedObject(v) == TypeOf(v) = "object" /\ v # Null

\* The Summary of an accepted record carries the thoughtNumber,
\* nextThoughtNeeded, thoughtType, uncertainty, isRevision and revisesThought
\* submitted and the length of the history after the append.
SummaryEchoesRecord ==
  LET summary == response.content IN
  /\ summary.thoughtNumber = input.thoughtNumber
  /\ summary.nextThoughtNeeded = input.nextThoughtNeeded
  /\ summary.thoughtType = input.thoughtType
  /\ summary.uncertainty = input.uncertainty
  /\ summary.isRevision = input.isRevision
  /\ summary.revisesThought = input.revisesThought
  /\ summary.thoughtHistoryLength = Len(thoughtHistory)
  /\ summary.thoughtHistoryLength = Len(before) + 1

\* C24 as stated: the Summary of an accepted record carries the six fields
\* submitted and the length of the history after the append;
\* hasExperimentalValidation is true exactly when experimentalElements was
\* supplied, and hasRecheckStep exactly when recheckStep was.
C24_Original ==
  Succeeded =>
    /\ SummaryEchoesRecord
    /\ response.content.hasExperimentalValidation = Supplied(input.experimentalElements)
    /\ response.content.hasRecheckStep = Supplied(input.recheckStep)

\* C24 amended: the Summary of an accepted record carries the six fields
\* submitted and the length of the history after the append;
\* hasExperimentalValidation is true exactly when experimentalElements was
\* supplied as an object, and hasRecheckStep exactly when recheckStep was: a
\* value supplied that JavaScript takes as false is accepted and leaves the
\* flag false, and no other value that is not an object is accepted.
C24_SummaryReflectsRecord ==
  Succeeded =>
    /\ SummaryEchoesRecord
    /\ response.content.hasExperimentalValidation = SuppliedObject(input.experimentalElements)
    /\ response.content.hasRecheckStep = SuppliedObject(input.recheckStep)
    /\ response.content.hasExperimentalValidation = Truthy(input.experimentalElements)
    /\ response.content.hasRecheckStep = Truthy(input.recheckStep)

\* C24 witness: a revision of thought 1 is accepted as the second entry of
\* the history, with experimentalElements false and a recheckStep; the
\* Summary carries the target and the length 2, and only the second flag.
C24_Witness ==
  /\ Succeeded
  /\ input.isRevision = Bool(TRUE)
  /\ input.revisesThought = Num(1)
  /\ response.content.revisesThought = Num(1)
  /\ Len(before) = 1
  /\ response.content.thoughtHistoryLength = 2
  /\ input.experimentalElements = Bool(FALSE)
  /\ ~response.content.hasExperimentalValidation
  /\ SuppliedObject(input.recheckStep)
  /\ response.content.hasRecheckStep


\* Some dependency of the record is forward or names no entry.
BadDependency == \E k \in 1..Len(Deps) : Forward(k) \/ Missing(k)

\* What the dependency check reports: the elements are taken in list order,
\* and for each the future/self test comes before the existence test.
FirstDependencyMessage ==
  IF Forward(FirstBad) THEN FutureMessage(Deps[FirstBad])
  ELSE MissingMessage(Deps[FirstBad])

\* C25: a record the Validator rejects gets the Validator's message whatever
\* its dependencies are; a record that passes the Validator and has a bad
\* dependency is rejected whatever its revision target is, and when its
\* dependencies are numbers it gets the dependency error of the first bad
\* element in list order, the future/self error if that element is both
\* forward and missing; a revision error is returned only to a record that
\* passes both earlier stages.
C25_StagesInOrder ==
  IsRecord =>
    /\ ValidationError(input) # NoError =>
         Rejected /\ response.content.error = ValidationError(input)
    /\ (PassesValidator /\ BadDependency) =>
         /\ Rejected
         /\ NumbersOnly => response.content.error = FirstDependencyMessage
    /\ (Rejected /\ RevisionCase /\ response.content.error \in RevisionMessages) =>
         ~BadDependency /\ ~TargetResolves

\* C25 witness: a record whose only dependency and whose revision target are
\* both its own thoughtNumber, which names no entry, is rejected with the
\* future-dependency error.
C25_Witness ==
  /\ RevisionCase
  /\ ~TargetResolves
  /\ Len(Deps) = 1
  /\ Forward(1) /\ Missing(1)
  /\ Rejected
  /\ response.content.error = FutureMessage(Deps[1])


\* The call returned an error of the revision check against the history.
RevisionErrorReturned ==
  /\ Rejected
  /\ Len(response.content.error) >= 17
  /\ SubSeq(response.content.error, 1, 17) = "Invalid revision:"

\* The record does not ask for the revision check: isRevision is not true, or
\* revisesThought is not set.
NoRevisionCheck ==
  IsRecord /\ ~(input.isRevision = Bool(TRUE) /\ input.revisesThought # Undefined)

\* C26: a record with isRevision true and no revisesThought, or with
\* isRevision false or absent, is never rejected with a revision error, and
\* is accepted whenever it passes the Validator and the dependency check.
C26_RevisionCheckOnlyWhenSet ==
  NoRevisionCheck =>
    /\ ~RevisionErrorReturned
    /\ (PassesValidator /\ ~BadDependency) => Succeeded


\* The thought numbers the entries of h numbered a link to: their
\* dependencies and their revision targets.
LinksFrom(h, a) ==
  UNION {{h[i].dependencies.elems[k] : k \in 1..Len(h[i].dependencies.elems)}
           \cup (IF h[i].revisesThought = Undefined THEN {} ELSE {h[i].revisesThought}) :
         i \in {j \in 1..Len(h) : h[j].thoughtNumber = a}}

\* The thought numbers reached from a by following at least one and at most
\* k links.
RECURSIVE ReachedWithin(_, _, _)
ReachedWithin(h, a, k) ==
  IF k = 0 THEN {}
  ELSE LET nearer == ReachedWithin(h, a, k - 1) IN
       LinksFrom(h, a) \cup nearer \cup UNION {LinksFrom(h, b) : b \in nearer}

\* C27: in every history every link of an entry goes to a strictly smaller
\* thought number, and following links from the thoughtNumber of an entry
\* never returns to it.
C27_NoDependencyCycle ==
  \A i \in 1..Len(thoughtHistory) :
    LET a == thoughtHistory[i].thoughtNumber IN
    /\ \A b \in LinksFrom(thoughtHistory, a) : Twice(b) < Twice(a)
    /\ a \notin ReachedWithin(thoughtHistory, a, Len(thoughtHistory))

\* C27 witness: thought 2 revises thought 1, the only thought number reached
\* from it.
C27_Witness ==
  /\ Len(thoughtHistory) = 2
  /\ thoughtHistory[1].thoughtNumber = Num(1)
  /\ thoughtHistory[2].thoughtNumber = Num(2)
  /\ thoughtHistory[2].dependencies.elems = <<>>
  /\ thoughtHistory[2].revisesThought = Num(1)
  /\ ReachedWithin(thoughtHistory, Num(2), 2) = {Num(1)}


\* The histories the history of the call in hand extends: the history as it
\* was before each of the entries appended to it, and the history itself.
EarlierHistories == {SubSeq(before, 1, k) : k \in 0..Len(before)}

\* The record can be rejected only for targets that name no entry: it
\* passes the Validator, no dependency is forward, its revision target is
\* below its thoughtNumber and its lists convert to strings.
OnlyExistenceAtStake ==
  /\ PassesValidator
  /\ \A k \in 1..Len(Deps) : ~Forward(k)
  /\ RevisionCase => Twice(input.revisesThought) < Twice(ThoughtNo)
  /\ formatThought(Stored) = NoError

\* Every dependency and the revision target of the record name an entry.
TargetsExist ==
  /\ \A k \in 1..Len(Deps) : ~Missing(k)
  /\ RevisionCase => Numbered(before, input.revisesThought)

\* C28: a record that processThought would accept on a history that the
\* present one extends, by any number of entries, is accepted; a record that
\* can be rejected only for a dependency or revision target that names no
\* entry is accepted once all its targets name entries, however many entries
\* have followed them.
C28_MonotoneAcceptance ==
  IsRecord =>
    /\ (\E h \in EarlierHistories : CaughtError(input, h) = NoError) => Succeeded
    /\ (OnlyExistenceAtStake /\ TargetsExist) => Succeeded

\* C28 witness: a record with a dependency, rejected on the empty history
\* because the dependency names no entry and accepted on the history of one
\* entry that holds it, is accepted again on that history extended by a
\* further entry.
C28_Witness ==
  /\ Succeeded
  /\ Len(before) = 2
  /\ Len(Deps) = 1
  /\ CaughtError(input, <<>>) = MissingMessage(Deps[1])
  /\ CaughtError(input, SubSeq(before, 1, 1)) = NoError
  /\ before[1].thoughtNumber = Deps[1]
  /\ before[2].thoughtNumber # Deps[1]

\* C29: every entry of the history has a totalThoughts at or above its
\* thoughtNumber, and so has every Summary.
C29_TotalAtLeastNumber ==
  /\ \A i \in 1..Len(thoughtHistory) :
       Twice(thoughtHistory[i].totalThoughts) >= Twice(thoughtHistory[i].thoughtNumber)
  /\ Succeeded =>
       Twice(response.content.totalThoughts) >= Twice(response.content.thoughtNumber)

\* C29 witness: a record with thoughtNumber 1.5 and totalThoughts 0.5 is
\* accepted, and the Summary and the entry carry the total 1.5.
C29_Witness ==
  /\ Succeeded
  /\ input.thoughtNumber = Half(1)
  /\ input.totalThoughts = Half(0)
  /\ response.content.totalThoughts = Half(1)
  /\ thoughtHistory[Len(thoughtHistory)].totalThoughts = Half(1)


\* C30: fed the same records of their common input language, the variants
\* accept and reject the same submissions, return the same error message on
\* a rejection, and hold histories that agree, entry by entry, on
\* thoughtNumber, totalThoughts and dependencies.
C30_VariantsAgree ==
  /\ Len(older.thoughtHistory) = Len(thoughtHistory)
  /\ \A i \in 1..Len(thoughtHistory) :
       /\ older.thoughtHistory[i].thoughtNumber = thoughtHistory[i].thoughtNumber
       /\ older.thoughtHistory[i].totalThoughts = thoughtHistory[i].totalThoughts
       /\ older.thoughtHistory[i].dependencies = thoughtHistory[i].dependencies
  /\ input # NoInput =>
       /\ older.thrown = thrown
       /\ older.response.isError = response.isError
       /\ response.isError => older.response.content.error = response.content.error

\* C30 witness: both variants accept a second thought that depends on the
\* first, and only the newer one reports hasRecheckStep.
C30_Witness ==
  /\ Succeeded
  /\ ~older.response.isError
  /\ Len(older.thoughtHistory) = 2
  /\ older.thoughtHistory[2].dependencies = Arr(<<Num(1)>>)
  /\ "hasRecheckStep" \in DOMAIN response.content
  /\ "hasRecheckStep" \notin DOMAIN older.response.content


====
